---- MODULE Spec2Model ----
(***************************************************************************)
(* Price-aggregation and categorization pipeline of sorcerers-ledger.      *)
(*                                                                         *)
(* Text is modelled by TLA+ strings, read character by character, so that  *)
(* substring tests, lower-casing and ordering are computed as Python       *)
(* computes them.  Catalog prices are integers in thousandths of a dollar  *)
(* (a JSON null is the empty tuple); marketplace prices are integers in    *)
(* quarter cents.                                                          *)
(***************************************************************************)
EXTENDS Integers, Sequences, FiniteSets, TLC

VARIABLES
    card_data,      \* content of the output file: set name -> set entry
    upstream,       \* the upstream answers drawn for a single run (SpecProduct)
    runs,           \* number of runs made by a single-run specification
    skipped_count,  \* products the latest run skipped as already present, per set
    stale_skips,    \* observation: the sets in which the latest run skipped a product whose upstream name or prices differ from the stored record
    title,          \* marketplace listing title handed to the title matcher
    master_card_list, \* reference catalog of the title matcher
    matched,        \* result of the title matcher
    sold_prices,    \* sold price observations of one (item, set, foil) group
    current_prices, \* current price observations of the same group
    medians,        \* result of calculate_medians for the group
    listing,        \* the listing filter_and_group_listings handled last
    outcome,        \* what became of it: excluded, unmatched or matched
    grouped,        \* (card, set, foil) -> price lists, in hundredths of a cent
    phase,          \* the loop of filter_and_group_listings that is running,
                    \* or "aborted" once an exception has left the function
    processed_count, \* listings handled so far
    _exchange_rate_cache, \* upper-cased currency code -> rate, in percent
    conversion,     \* the latest call of convert_price_to_usd and what it did
    parser_file,    \* content of the output file of ebay_parser: set name -> set entry
    parser_memory,  \* all_sets_processed_data of the run of ebay_parser
    parser_pc,      \* whether a run of ebay_parser is under way
    combination,    \* the card and set the run has come to
    cards_processed, \* processed_count of the run of ebay_parser
    parser_runs,    \* runs of ebay_parser started so far
    median_input,   \* the medians handed to _generate_card_data_from_medians, in the order of the dict
    ebay_card_data, \* content of the file it wrote: set name -> set entry
    time_since_last_call, \* tenths of a second since _last_api_call_time, up to API_CALL_DELAY
    time_since_request, \* tenths of a second since the latest outbound request, up to API_CALL_DELAY
    request_gap,    \* what time_since_request was when the latest outbound request was sent
    retry_count,    \* retry_count of the call of _make_rate_limited_request
    retry_delay,    \* its retry_delay, in seconds
    gate_response,  \* the latest answer to a request of the call
    slept,          \* the latest sleep of the loop of the call
    gate_pc,        \* whether a request of the call is out
    returned,       \* how the latest call ended
    gate_calls,     \* calls of _make_rate_limited_request so far
    requests_sent,  \* requests.get of the latest call so far
    fetch_function, \* the fetch function the batch has called last
    fetch_pc,       \* whether its loop over the pages is running
    fetch_offset,   \* pages it has asked for and got
    fetch_all_items, \* all_items of the call
    fetch_total_items, \* total_items of the call; None while it is not bound
    fetch_result,   \* the list the call returned, if it did
    batch_queries,  \* queries the batch has issued
    batch_aborted,  \* whether an exception has left the batch
    directory,      \* the files of card_data_dir: file name -> date of last modification
    clock,          \* the date of datetime.now()
    days_passed,    \* days the clock has moved
    batch_call,     \* the latest call of batch_update_core, with what it met
    all_sold_items, \* all_sold_items of the bulk pipeline, after the loop over the sets
    all_current_items, \* its all_current_items
    grouped_data,   \* what filter_and_group_listings made of them, once it has run
    resume_outcome  \* how the latest run over a file that was there before ended

vars == <<card_data, upstream, runs, skipped_count, stale_skips, title, master_card_list, matched,
          sold_prices, current_prices, medians, listing, outcome, grouped, phase, processed_count,
          _exchange_rate_cache, conversion,
          parser_file, parser_memory, parser_pc, combination, cards_processed,
          parser_runs, median_input, ebay_card_data,
          time_since_last_call, time_since_request, request_gap, retry_count, retry_delay,
          gate_response, slept, gate_pc, returned, gate_calls, requests_sent,
          fetch_function, fetch_pc, fetch_offset, fetch_all_items, fetch_total_items,
          fetch_result, batch_queries, batch_aborted,
          directory, clock, days_passed, batch_call,
          all_sold_items, all_current_items, grouped_data, resume_outcome>>

catalog_vars == <<card_data, upstream, runs, skipped_count, stale_skips>>
matcher_vars == <<title, master_card_list, matched>>
median_vars == <<sold_prices, current_prices, medians>>
listing_vars == <<listing, outcome, grouped, phase, processed_count>>
currency_vars == <<_exchange_rate_cache, conversion>>
parser_vars == <<parser_file, parser_memory, parser_pc, combination,
                 cards_processed, parser_runs>>

index_vars == <<median_input, ebay_card_data>>

gate_vars == <<time_since_last_call, time_since_request, request_gap, retry_count,
               retry_delay, gate_response, slept, gate_pc, returned, gate_calls,
               requests_sent>>

fetch_vars == <<fetch_function, fetch_pc, fetch_offset, fetch_all_items, fetch_total_items,
                fetch_result, batch_queries, batch_aborted>>

archive_vars == <<directory, clock, days_passed, batch_call>>
bulk_vars == <<all_sold_items, all_current_items, grouped_data>>
resume_vars == <<resume_outcome>>

\* the variables of the scripts that run on their own
script_vars == <<parser_vars, index_vars, gate_vars, fetch_vars, archive_vars, bulk_vars, resume_vars>>

\* what the catalog runs, the title matcher and the medians leave alone
beside_catalog == <<matcher_vars, median_vars, listing_vars, currency_vars, script_vars>>
beside_matcher == <<catalog_vars, median_vars, listing_vars, currency_vars, script_vars>>
beside_medians == <<catalog_vars, matcher_vars, listing_vars, currency_vars, script_vars>>
beside_currency == <<catalog_vars, matcher_vars, median_vars, listing_vars, script_vars>>
beside_listings == <<catalog_vars, matcher_vars, median_vars, script_vars>>
beside_parser == <<catalog_vars, matcher_vars, median_vars, listing_vars, currency_vars,
                   index_vars, gate_vars, fetch_vars, archive_vars, bulk_vars, resume_vars>>
beside_index == <<matcher_vars, median_vars, listing_vars, currency_vars, parser_vars,
                  gate_vars, fetch_vars, archive_vars, bulk_vars, resume_vars>>
beside_gate == <<catalog_vars, matcher_vars, median_vars, listing_vars, currency_vars,
                 parser_vars, index_vars, fetch_vars, archive_vars, bulk_vars, resume_vars>>
beside_fetch == <<catalog_vars, matcher_vars, median_vars, listing_vars, currency_vars,
                  parser_vars, index_vars, gate_vars, archive_vars, bulk_vars, resume_vars>>
beside_archive == <<catalog_vars, matcher_vars, median_vars, listing_vars, currency_vars,
                    parser_vars, index_vars, gate_vars, fetch_vars, bulk_vars, resume_vars>>
beside_bulk == <<catalog_vars, matcher_vars, median_vars, listing_vars, currency_vars,
                 parser_vars, index_vars, gate_vars, fetch_vars, archive_vars, resume_vars>>
beside_resume == <<matcher_vars, median_vars, listing_vars, currency_vars, parser_vars,
                   index_vars, gate_vars, fetch_vars, archive_vars, bulk_vars>>

(***************************************************************************)
(* Text                                                                    *)
(***************************************************************************)

\* code points of the printable ASCII characters
ord ==
    " " :> 32 @@ "!" :> 33 @@ "\"" :> 34 @@ "#" :> 35 @@ "$" :> 36 @@ "%" :> 37 @@
    "&" :> 38 @@ "'" :> 39 @@ "(" :> 40 @@ ")" :> 41 @@ "*" :> 42 @@ "+" :> 43 @@
    "," :> 44 @@ "-" :> 45 @@ "." :> 46 @@ "/" :> 47 @@ "0" :> 48 @@ "1" :> 49 @@
    "2" :> 50 @@ "3" :> 51 @@ "4" :> 52 @@ "5" :> 53 @@ "6" :> 54 @@ "7" :> 55 @@
    "8" :> 56 @@ "9" :> 57 @@ ":" :> 58 @@ ";" :> 59 @@ "<" :> 60 @@ "=" :> 61 @@
    ">" :> 62 @@ "?" :> 63 @@ "@" :> 64 @@ "A" :> 65 @@ "B" :> 66 @@ "C" :> 67 @@
    "D" :> 68 @@ "E" :> 69 @@ "F" :> 70 @@ "G" :> 71 @@ "H" :> 72 @@ "I" :> 73 @@
    "J" :> 74 @@ "K" :> 75 @@ "L" :> 76 @@ "M" :> 77 @@ "N" :> 78 @@ "O" :> 79 @@
    "P" :> 80 @@ "Q" :> 81 @@ "R" :> 82 @@ "S" :> 83 @@ "T" :> 84 @@ "U" :> 85 @@
    "V" :> 86 @@ "W" :> 87 @@ "X" :> 88 @@ "Y" :> 89 @@ "Z" :> 90 @@ "[" :> 91 @@
    "\\" :> 92 @@ "]" :> 93 @@ "^" :> 94 @@ "_" :> 95 @@ "a" :> 97 @@
    "b" :> 98 @@ "c" :> 99 @@ "d" :> 100 @@ "e" :> 101 @@ "f" :> 102 @@ "g" :> 103 @@
    "h" :> 104 @@ "i" :> 105 @@ "j" :> 106 @@ "k" :> 107 @@ "l" :> 108 @@ "m" :> 109 @@
    "n" :> 110 @@ "o" :> 111 @@ "p" :> 112 @@ "q" :> 113 @@ "r" :> 114 @@ "s" :> 115 @@
    "t" :> 116 @@ "u" :> 117 @@ "v" :> 118 @@ "w" :> 119 @@ "x" :> 120 @@ "y" :> 121 @@
    "z" :> 122 @@ "{" :> 123 @@ "|" :> 124 @@ "}" :> 125 @@ "~" :> 126

LowerCaseLetters == "abcdefghijklmnopqrstuvwxyz"

\* the character at position i of s, as a string of length 1
CharAt(s, i) == SubSeq(s, i, i)

\* str.lower() of one character
lower_char(c) ==
    IF ord[c] >= ord["A"] /\ ord[c] <= ord["Z"]
    THEN CharAt(LowerCaseLetters, ord[c] - ord["A"] + 1)
    ELSE c

\* str.lower()
RECURSIVE lower(_)
lower(s) == IF s = "" THEN "" ELSE lower_char(Head(s)) \o lower(Tail(s))

\* Python's (sub in s)
In(sub, s) ==
    \E i \in 1..(Len(s) - Len(sub) + 1) : SubSeq(s, i, i + Len(sub) - 1) = sub

\* Python's s < t on strings: lexicographic by code point
RECURSIVE str_lt(_, _)
str_lt(s, t) ==
    IF t = "" THEN FALSE
    ELSE IF s = "" THEN TRUE
    ELSE IF Head(s) = Head(t) THEN str_lt(Tail(s), Tail(t))
    ELSE ord[Head(s)] < ord[Head(t)]

(***************************************************************************)
(* Game configuration (game_config.py)                                     *)
(***************************************************************************)

RARITIES == <<"Unique", "Elite", "Exceptional", "Ordinary">>

SEALED_KEYWORDS ==
    <<"booster box", "booster box case", "booster case", "booster pack",
      "pledge pack", "display", "booster display">>

SET_SPECIFIC_SEALED_PATTERNS == << <<"dragonlord", "dragonlord box">> >>

\* is_sealed_preconstructed_product_name without the deck-box pattern
is_sealed_preconstructed_product_name_no_deck_box(name) ==
    IF name = "" THEN FALSE
    ELSE LET n == lower(name)
         IN  \/ In("preconstructed deck:", n)
             \/ (In("preconstructed deck", n) /\ ~In("(", name))

is_sealed_preconstructed_product_name(name) ==
    IF name = "" THEN FALSE
    ELSE LET n == lower(name)
         IN  \/ In("preconstructed deck box", n)
             \/ In("preconstructed deck:", n)
             \/ (In("preconstructed deck", n) /\ ~In("(", name))

\* is_preconstructed_single_name that gives way to a sealed keyword
is_preconstructed_single_name_unless_keyword(name) ==
    /\ In("(Preconstructed Deck)", name)
    /\ ~\E k \in 1..Len(SEALED_KEYWORDS) : In(SEALED_KEYWORDS[k], lower(name))

is_preconstructed_single_name(name) == In("(Preconstructed Deck)", name)

is_sealed_product_name(name, set_name) ==
    IF name = "" THEN FALSE
    ELSE IF In("(Pledge Pack)", name) \/ In("(Preconstructed Deck)", name) THEN FALSE
    ELSE LET n == lower(name)
             set_lower == lower(set_name)
         IN  \/ is_sealed_preconstructed_product_name(name)
             \/ \E k \in 1..Len(SET_SPECIFIC_SEALED_PATTERNS) :
                    /\ In(SET_SPECIFIC_SEALED_PATTERNS[k][1], set_lower)
                    /\ In(SET_SPECIFIC_SEALED_PATTERNS[k][2], n)
             \/ \E k \in 1..Len(SEALED_KEYWORDS) : In(SEALED_KEYWORDS[k], n)

(***************************************************************************)
(* Catalog pipeline (pricing_core.py)                                      *)
(***************************************************************************)

\* a JSON null
None == <<>>
\* a JSON number v, in thousandths of a dollar
Num(v) == <<v>>

_is_foil_product(sub_type_name) ==
    sub_type_name # "" /\ lower(sub_type_name) = "foil"

\* safe_float(value, default=0.0)
safe_float(value) == IF value = None THEN 0 ELSE value[1]

\* f"{x:.2f}" of x thousandths of a dollar, x not ending in 5 (a tie is decided
\* by the binary representation of the float, which the inputs here avoid)
format_2f(x) ==
    LET cents == (x + 5) \div 10
    IN  ToString(cents \div 100) \o "." \o ToString((cents \div 10) % 10) \o ToString(cents % 10)

digit_value(c) == ord[c] - ord["0"]

\* the digits of s as a natural number
RECURSIVE parse_digits(_, _)
parse_digits(s, acc) ==
    IF s = "" THEN acc ELSE parse_digits(Tail(s), 10 * acc + digit_value(Head(s)))

\* float(s) of a string "d...d.cc", in cents
parse_float(s) ==
    LET dot == CHOOSE i \in 1..Len(s) : CharAt(s, i) = "."
    IN  100 * parse_digits(SubSeq(s, 1, dot - 1), 0) + parse_digits(SubSeq(s, dot + 1, Len(s)), 0)

\* the elements of a sequence
Range(seq) == {seq[i] : i \in 1..Len(seq)}

\* sort_by_price as an ascending sort that is then reversed: cards of equal
\* price swap places
RECURSIVE sort_by_price_reversed(_)
sort_by_price_reversed(cards) ==
    IF cards = <<>> THEN <<>>
    ELSE LET init == sort_by_price_reversed(SubSeq(cards, 1, Len(cards) - 1))
             card == cards[Len(cards)]
             key(c) == parse_float(c.tcgplayerMarketPrice)
             ahead == Cardinality({i \in 1..Len(init) : key(init[i]) > key(card)})
         IN  SubSeq(init, 1, ahead) \o <<card>> \o SubSeq(init, ahead + 1, Len(init))

\* sorted(cards, key=float(tcgplayerMarketPrice), reverse=True): stable, so a
\* card goes behind every card whose price is not lower than its own
RECURSIVE sort_by_price(_)
sort_by_price(cards) ==
    IF cards = <<>> THEN <<>>
    ELSE LET init == sort_by_price(SubSeq(cards, 1, Len(cards) - 1))
             card == cards[Len(cards)]
             key(c) == parse_float(c.tcgplayerMarketPrice)
             ahead == Cardinality({i \in 1..Len(init) : key(init[i]) >= key(card)})
         IN  SubSeq(init, 1, ahead) \o <<card>> \o SubSeq(init, ahead + 1, Len(init))

\* sorted(cards, key=name.lower()): stable, so a card goes behind every card
\* whose key is not greater than its own
RECURSIVE sort_by_name(_)
sort_by_name(cards) ==
    IF cards = <<>> THEN <<>>
    ELSE LET init == sort_by_name(SubSeq(cards, 1, Len(cards) - 1))
             card == cards[Len(cards)]
             key(c) == lower(c.name)
             ahead == Cardinality({i \in 1..Len(init) : ~str_lt(key(card), key(init[i]))})
         IN  SubSeq(init, 1, ahead) \o <<card>> \o SubSeq(init, ahead + 1, Len(init))

\* the entry of a set that the output file does not hold yet
new_set_data(rarities) ==
    [nonFoil |-> <<>>, foil |-> <<>>, sealed |-> <<>>, preconstructed |-> <<>>,
     nonFoilByName |-> <<>>, foilByName |-> <<>>,
     sealedByName |-> <<>>, preconstructedByName |-> <<>>,
     nonFoilByRarityPrice |-> [r \in Range(rarities) |-> <<>>],
     foilByRarityPrice |-> [r \in Range(rarities) |-> <<>>],
     nonFoilByRarityName |-> [r \in Range(rarities) |-> <<>>],
     foilByRarityName |-> [r \in Range(rarities) |-> <<>>]]

\* _load_product_info_file: product id -> product, the empty map when the
\* file is missing; a later entry of the file replaces an earlier one
_load_product_info_file(file) ==
    IF ~file.found THEN <<>>
    ELSE LET ids == {file.products[i].productId : i \in 1..Len(file.products)} \ {0}
         IN  [id \in ids |->
                file.products[CHOOSE i \in 1..Len(file.products) :
                    /\ file.products[i].productId = id
                    /\ \A j \in (i + 1)..Len(file.products) : file.products[j].productId # id]]

\* _create_price_mapping_from_group_pricing: a dict, so one entry per product
\* id, at the position of the id's first row and with the values of its last
_create_price_mapping_from_group_pricing(pricing_data) ==
    IF ~pricing_data.success THEN <<>>
    ELSE LET results == pricing_data.results
             firsts == {i \in 1..Len(results) :
                          /\ results[i].productId # 0
                          /\ \A j \in 1..(i - 1) : results[j].productId # results[i].productId}
             last(id) == CHOOSE i \in 1..Len(results) :
                          /\ results[i].productId = id
                          /\ \A j \in (i + 1)..Len(results) : results[j].productId # id
             RECURSIVE items(_)
             items(i) ==
                 IF i > Len(results) THEN <<>>
                 ELSE IF i \in firsts
                      THEN <<[product_id |-> results[i].productId,
                              price_info |-> results[last(results[i].productId)]]>> \o items(i + 1)
                      ELSE items(i + 1)
         IN  items(1)

\* existing_product_ids that looks at the card buckets only
existing_product_ids_cards_only(set_data) ==
    {c.tcgplayerProductId : c \in Range(set_data.nonFoil) \cup Range(set_data.foil)} \ {0}

\* the product ids of the four flat buckets of a set entry
existing_product_ids(set_data) ==
    {c.tcgplayerProductId :
        c \in Range(set_data.nonFoil) \cup Range(set_data.foil)
              \cup Range(set_data.sealed) \cup Range(set_data.preconstructed)} \ {0}

\* categorization of one product: sealed, preconstructed, foil
categorize(product_name, set_name, price_info) ==
    LET is_sealed_precon == is_sealed_preconstructed_product_name(product_name)
        is_preconstructed ==
            IF ~is_sealed_precon THEN is_preconstructed_single_name(product_name) ELSE FALSE
        is_sealed ==
            is_sealed_precon
            \/ (IF ~is_preconstructed THEN is_sealed_product_name(product_name, set_name) ELSE FALSE)
        is_foil ==
            IF ~is_sealed /\ ~is_preconstructed
            THEN _is_foil_product(price_info.subTypeName) \/ In("(Foil)", product_name)
            ELSE FALSE
    IN  [is_sealed |-> is_sealed, is_preconstructed |-> is_preconstructed, is_foil |-> is_foil]

\* card_info_of that keeps a market price of 0
card_info_of_no_fallback(product_id, product_name, set_name, price_info) ==
    [name |-> product_name,
     tcgplayerProductId |-> product_id,
     tcgplayerLowPrice |-> format_2f(safe_float(price_info.lowPrice)),
     tcgplayerMidPrice |-> format_2f(safe_float(price_info.midPrice)),
     tcgplayerHighPrice |-> format_2f(safe_float(price_info.highPrice)),
     tcgplayerMarketPrice |-> format_2f(safe_float(price_info.marketPrice)),
     set_name |-> set_name]

\* the record of one product: null prices coerced to 0, a market price of 0
\* replaced by the mid price, all four formatted to two decimals
card_info_of(product_id, product_name, set_name, price_info) ==
    LET low_price == safe_float(price_info.lowPrice)
        mid_price == safe_float(price_info.midPrice)
        high_price == safe_float(price_info.highPrice)
        market == safe_float(price_info.marketPrice)
        market_price == IF market = 0 THEN safe_float(price_info.midPrice) ELSE market
    IN  [name |-> product_name,
         tcgplayerProductId |-> product_id,
         tcgplayerLowPrice |-> format_2f(low_price),
         tcgplayerMidPrice |-> format_2f(mid_price),
         tcgplayerHighPrice |-> format_2f(high_price),
         tcgplayerMarketPrice |-> format_2f(market_price),
         set_name |-> set_name]

\* route that fills the rarity sub-buckets before it looks at the category
route_rarity_first(set_data, card_info, cat, rarity, rarities) ==
    LET by_rarity ==
            IF rarity # "" /\ rarity \in Range(rarities)
            THEN IF cat.is_foil
                 THEN [set_data EXCEPT !.foilByRarityPrice[rarity] = Append(@, card_info),
                                       !.foilByRarityName[rarity] = Append(@, card_info)]
                 ELSE [set_data EXCEPT !.nonFoilByRarityPrice[rarity] = Append(@, card_info),
                                       !.nonFoilByRarityName[rarity] = Append(@, card_info)]
            ELSE set_data
    IN  IF cat.is_sealed THEN [by_rarity EXCEPT !.sealed = Append(@, card_info)]
        ELSE IF cat.is_preconstructed THEN [by_rarity EXCEPT !.preconstructed = Append(@, card_info)]
        ELSE IF cat.is_foil THEN [by_rarity EXCEPT !.foil = Append(@, card_info)]
        ELSE [by_rarity EXCEPT !.nonFoil = Append(@, card_info)]

\* routing of one record to its bucket and, for a card of a known rarity, to
\* the rarity sub-buckets of its foil state
route(set_data, card_info, cat, rarity, rarities) ==
    IF cat.is_sealed THEN [set_data EXCEPT !.sealed = Append(@, card_info)]
    ELSE IF cat.is_preconstructed THEN [set_data EXCEPT !.preconstructed = Append(@, card_info)]
    ELSE LET by_rarity ==
                 IF rarity # "" /\ rarity \in Range(rarities)
                 THEN IF cat.is_foil
                      THEN [set_data EXCEPT !.foilByRarityPrice[rarity] = Append(@, card_info),
                                            !.foilByRarityName[rarity] = Append(@, card_info)]
                      ELSE [set_data EXCEPT !.nonFoilByRarityPrice[rarity] = Append(@, card_info),
                                            !.nonFoilByRarityName[rarity] = Append(@, card_info)]
                 ELSE set_data
         IN  IF cat.is_foil
             THEN [by_rarity EXCEPT !.foil = Append(@, card_info)]
             ELSE [by_rarity EXCEPT !.nonFoil = Append(@, card_info)]

\* process_product that refreshes the record of a product already present
\* instead of skipping it
process_product_refresh(set_data, existing, set_name, item, product_info_map, rarities) ==
    IF item.product_id \notin DOMAIN product_info_map THEN set_data
    ELSE LET product_details == product_info_map[item.product_id]
             product_name == product_details.name
             cat == categorize(product_name, set_name, item.price_info)
             rarity == IF ~cat.is_sealed THEN product_details.rarity ELSE ""
             without_product(cards, product_id) ==
                SelectSeq(cards, LAMBDA c : c.tcgplayerProductId # product_id)
             cleared ==
                [set_data EXCEPT
                    !.nonFoil = without_product(@, item.product_id),
                    !.foil = without_product(@, item.product_id),
                    !.sealed = without_product(@, item.product_id),
                    !.preconstructed = without_product(@, item.product_id),
                    !.nonFoilByRarityPrice = [r \in DOMAIN @ |-> without_product(@[r], item.product_id)],
                    !.nonFoilByRarityName = [r \in DOMAIN @ |-> without_product(@[r], item.product_id)],
                    !.foilByRarityPrice = [r \in DOMAIN @ |-> without_product(@[r], item.product_id)],
                    !.foilByRarityName = [r \in DOMAIN @ |-> without_product(@[r], item.product_id)]]
         IN  IF product_name = "" THEN set_data
             ELSE route(cleared,
                        card_info_of(item.product_id, product_name, set_name, item.price_info),
                        cat, rarity, rarities)

\* one turn of the loop over price_map.items()
process_product(set_data, existing, set_name, item, product_info_map, rarities) ==
    IF item.product_id \in existing THEN set_data
    ELSE IF item.product_id \notin DOMAIN product_info_map THEN set_data
    ELSE LET product_details == product_info_map[item.product_id]
             product_name == product_details.name
             cat == categorize(product_name, set_name, item.price_info)
             rarity == IF ~cat.is_sealed THEN product_details.rarity ELSE ""
         IN  IF product_name = "" THEN set_data
             ELSE route(set_data,
                        card_info_of(item.product_id, product_name, set_name, item.price_info),
                        cat, rarity, rarities)

\* a loop over price_map.items() that a product without product info ends
RECURSIVE process_products_until_missing(_, _, _, _, _, _)
process_products_until_missing(set_data, existing, set_name, price_map, product_info_map, rarities) ==
    IF price_map = <<>> THEN set_data
    ELSE IF Head(price_map).product_id \notin existing
            /\ Head(price_map).product_id \notin DOMAIN product_info_map
    THEN set_data
    ELSE process_products_until_missing(
            process_product(set_data, existing, set_name, Head(price_map), product_info_map, rarities),
            existing, set_name, Tail(price_map), product_info_map, rarities)

\* the loop over price_map.items()
RECURSIVE process_products(_, _, _, _, _, _)
process_products(set_data, existing, set_name, price_map, product_info_map, rarities) ==
    IF price_map = <<>> THEN set_data
    ELSE process_products(
            process_product(set_data, existing, set_name, Head(price_map), product_info_map, rarities),
            existing, set_name, Tail(price_map), product_info_map, rarities)

\* one turn of the loop over set_group_ids.items()
process_set(all_data, set_name, rarities, env) ==
    LET with_set ==
            IF set_name \in DOMAIN all_data THEN all_data
            ELSE all_data @@ (set_name :> new_set_data(rarities))
        set_data == with_set[set_name]
        product_info_map == _load_product_info_file(env.product_info[set_name])
        pricing_data == env.pricing[set_name]
    IN  IF DOMAIN product_info_map = {} THEN with_set
        ELSE IF pricing_data = None THEN with_set
        ELSE [with_set EXCEPT ![set_name] =
                process_products(set_data, existing_product_ids(set_data), set_name,
                                 _create_price_mapping_from_group_pricing(pricing_data[1]),
                                 product_info_map, rarities)]

RECURSIVE process_sets(_, _, _, _, _, _)
process_sets(all_data, set_group_ids, rarities, env, test_mode, test_set_name) ==
    IF set_group_ids = <<>> THEN all_data
    ELSE LET set_name == Head(set_group_ids)
         IN  process_sets(
                IF test_mode /\ set_name # test_set_name THEN all_data
                ELSE process_set(all_data, set_name, rarities, env),
                Tail(set_group_ids), rarities, env, test_mode, test_set_name)

\* the final sorting of one set entry
sort_set_data(set_data, rarities) ==
    LET nonFoil == sort_by_price(set_data.nonFoil)
        foil == sort_by_price(set_data.foil)
        sealed == sort_by_price(set_data.sealed)
        preconstructed == sort_by_price(set_data.preconstructed)
    IN  [nonFoil |-> nonFoil, nonFoilByName |-> sort_by_name(nonFoil),
         foil |-> foil, foilByName |-> sort_by_name(foil),
         sealed |-> sealed, sealedByName |-> sort_by_name(sealed),
         preconstructed |-> preconstructed, preconstructedByName |-> sort_by_name(preconstructed),
         nonFoilByRarityPrice |->
            [r \in DOMAIN set_data.nonFoilByRarityPrice |->
                IF r \in Range(rarities) THEN sort_by_price(set_data.nonFoilByRarityPrice[r])
                ELSE set_data.nonFoilByRarityPrice[r]],
         nonFoilByRarityName |->
            [r \in DOMAIN set_data.nonFoilByRarityName |->
                IF r \in Range(rarities) THEN sort_by_name(set_data.nonFoilByRarityName[r])
                ELSE set_data.nonFoilByRarityName[r]],
         foilByRarityPrice |->
            [r \in DOMAIN set_data.foilByRarityPrice |->
                IF r \in Range(rarities) THEN sort_by_price(set_data.foilByRarityPrice[r])
                ELSE set_data.foilByRarityPrice[r]],
         foilByRarityName |->
            [r \in DOMAIN set_data.foilByRarityName |->
                IF r \in Range(rarities) THEN sort_by_name(set_data.foilByRarityName[r])
                ELSE set_data.foilByRarityName[r]]]

\* generate_card_data_from_tcgplayer: the content of the output file after
\* the run, given its content before.  Without a bearer token the run
\* returns before it writes anything.
generate_card_data_from_tcgplayer(file, set_group_ids, rarities, env, test_mode, test_set_name) ==
    IF ~env.bearer_token THEN file
    ELSE LET all_sets_processed_data ==
                 process_sets(file, set_group_ids, rarities, env, test_mode, test_set_name)
         IN  [set_name \in DOMAIN all_sets_processed_data |->
                sort_set_data(all_sets_processed_data[set_name], rarities)]

(***************************************************************************)
(* Catalog runs                                                            *)
(***************************************************************************)

MaxRows == 2

SET_GROUP_IDS == <<"Alpha", "Dragonlord">>

ProductInfo(id, name, rarity) == [productId |-> id, name |-> name, rarity |-> rarity]
PriceRow(id, sub, low, mid, high, market) ==
    [productId |-> id, subTypeName |-> sub, lowPrice |-> low, midPrice |-> mid,
     highPrice |-> high, marketPrice |-> market]

\* the product-info files a set can have: missing, or one of two editions
\* (the second renames product 1 and turns product 2 into a card)
ProductInfoFiles(set_name) ==
    IF set_name = "Alpha"
    THEN {[found |-> FALSE, products |-> <<>>],
          [found |-> TRUE, products |-> <<ProductInfo(1, "Apprentice Wizard", "Ordinary"),
                                          ProductInfo(2, "Booster Box", "")>>],
          [found |-> TRUE, products |-> <<ProductInfo(1, "blink", "Unique"),
                                          ProductInfo(2, "Zap", "Ordinary")>>]}
    ELSE {[found |-> FALSE, products |-> <<>>],
          [found |-> TRUE, products |-> <<ProductInfo(1, "Dragonlord Box", ""),
                                          ProductInfo(2, "Flame Wave (Preconstructed Deck)", "Elite")>>]}

\* the pricing rows a set can have; product 3 of Alpha has no product info
PriceRows(set_name) ==
    IF set_name = "Alpha"
    THEN {PriceRow(1, "Normal", None, Num(5000), Num(10000), Num(0)),
          PriceRow(1, "Foil", Num(20000), Num(25000), Num(30004), Num(22000)),
          PriceRow(2, "Normal", Num(4996), Num(5000), None, None),
          PriceRow(3, "Normal", Num(1000), Num(1000), Num(1000), Num(1000))}
    ELSE {PriceRow(1, "Normal", Num(20000), Num(25000), Num(30000), Num(0)),
          PriceRow(2, "Foil", Num(1000), Num(2000), Num(3000), Num(2500))}

\* the sequences of at most n distinct elements of S
SeqsUpTo(S, n) ==
    UNION {{q \in [1..k -> S] : \A i, j \in 1..k : q[i] = q[j] => i = j} : k \in 0..n}

\* the answers of fetch_group_pricing: None, or a successful response
PricingResponses(set_name) ==
    {None} \cup {<<[success |-> TRUE, results |-> rs]>> :
                    rs \in IF set_name = "Alpha" THEN SeqsUpTo(PriceRows(set_name), MaxRows)
                           ELSE {<<r>> : r \in PriceRows(set_name)}}

NoToken ==
    [bearer_token |-> FALSE,
     product_info |-> [s \in Range(SET_GROUP_IDS) |-> [found |-> FALSE, products |-> <<>>]],
     pricing |-> [s \in Range(SET_GROUP_IDS) |-> None]]

\* what a set can answer in one run: the pricing fetch is only issued when
\* the product-info file is there
SetAnswers(set_name) ==
    {[product_info |-> f, pricing |-> p] :
        f \in ProductInfoFiles(set_name), p \in PricingResponses(set_name)}
    \ {a \in [product_info : ProductInfoFiles(set_name), pricing : PricingResponses(set_name)] :
        ~a.product_info.found /\ a.pricing # None}

\* the upstream of a run, from the answers of each set
UpstreamOf(answers) ==
    [bearer_token |-> TRUE,
     product_info |-> [s \in DOMAIN answers |-> answers[s].product_info],
     pricing |-> [s \in DOMAIN answers |-> answers[s].pricing]]

\* what one run can meet upstream
Upstreams ==
    {NoToken} \cup
    {UpstreamOf([s \in Range(SET_GROUP_IDS) |-> IF s = "Alpha" THEN a ELSE d]) :
        a \in SetAnswers("Alpha"), d \in SetAnswers("Dragonlord")}

\* the record of a set entry that carries a product id, in any flat bucket
stored_record(set_data, product_id) ==
    CHOOSE c \in Range(set_data.nonFoil) \cup Range(set_data.foil)
                 \cup Range(set_data.sealed) \cup Range(set_data.preconstructed) :
        c.tcgplayerProductId = product_id

\* the priced products of a set that a run skips as already present
\* (the turns of the loop that count skipped_count)
skipped_products(file, set_name, env) ==
    IF ~env.bearer_token \/ set_name \notin DOMAIN file THEN {}
    ELSE IF DOMAIN _load_product_info_file(env.product_info[set_name]) = {} THEN {}
    ELSE IF env.pricing[set_name] = None THEN {}
    ELSE LET price_map == _create_price_mapping_from_group_pricing(env.pricing[set_name][1])
         IN  {price_map[i].product_id : i \in 1..Len(price_map)}
                \cap existing_product_ids(file[set_name])

\* the skipped products for which the run would have built another record
\* than the stored one
stale_products(file, set_name, env) ==
    LET product_info_map == _load_product_info_file(env.product_info[set_name])
        price_map == _create_price_mapping_from_group_pricing(env.pricing[set_name][1])
    IN  {id \in skipped_products(file, set_name, env) :
            /\ id \in DOMAIN product_info_map
            /\ \E i \in 1..Len(price_map) :
                /\ price_map[i].product_id = id
                /\ card_info_of(id, product_info_map[id].name, set_name, price_map[i].price_info)
                      # stored_record(file[set_name], id)}

CatalogInit ==
    /\ card_data = <<>>
    /\ upstream = NoToken
    /\ runs = 0
    /\ skipped_count = [s \in Range(SET_GROUP_IDS) |-> 0]
    /\ stale_skips = {}

\* one run of generate_card_data_from_tcgplayer against the output file, with
\* the configuration of batch_update.py (every set, no test mode)
CatalogRun ==
    /\ \E env \in Upstreams :
        /\ card_data' = generate_card_data_from_tcgplayer(card_data, SET_GROUP_IDS, RARITIES, env, FALSE, "")
        /\ skipped_count' = [s \in Range(SET_GROUP_IDS) |-> Cardinality(skipped_products(card_data, s, env))]
        /\ stale_skips' = {s \in Range(SET_GROUP_IDS) : stale_products(card_data, s, env) # {}}
    /\ UNCHANGED <<upstream, runs, beside_catalog>>

\* no title has been matched
MatcherIdle == title = "" /\ master_card_list = <<>> /\ matched = None

\* no listing has been grouped
MedianIdle == sold_prices = <<>> /\ current_prices = <<>> /\ medians = None

\* no listing has been filtered
ListingIdle ==
    /\ listing = None /\ outcome = "" /\ grouped = <<>>
    /\ phase = "sold" /\ processed_count = 0

\* no price has been converted
CurrencyIdle == _exchange_rate_cache = <<>> /\ conversion = None

\* no run of ebay_parser has started, and there is no output file
ParserIdle ==
    /\ parser_file = <<>> /\ parser_memory = <<>>
    /\ parser_pc = "idle" /\ combination = 0 /\ cards_processed = 0 /\ parser_runs = 0

\* no file has been generated from medians
IndexIdle == median_input = <<>> /\ ebay_card_data = <<>>

\* Delay in seconds between API calls (0.7), in tenths of a second
API_CALL_DELAY == 7

\* Maximum delay for exponential backoff, in seconds
MAX_RETRY_DELAY == 60

\* Initial delay for exponential backoff, in seconds
INITIAL_RETRY_DELAY == 1

\* the default of the parameter max_retries, which every caller leaves alone
max_retries == 5

\* no request has been made: _last_api_call_time is 0, long before the clock
GateIdle ==
    /\ time_since_last_call = API_CALL_DELAY /\ time_since_request = API_CALL_DELAY
    /\ request_gap = None /\ retry_count = 0 /\ retry_delay = INITIAL_RETRY_DELAY
    /\ gate_response = None /\ slept = None /\ gate_pc = "idle" /\ returned = ""
    /\ gate_calls = 0 /\ requests_sent = 0

\* the batch has issued no query
FetchIdle ==
    /\ fetch_function = "" /\ fetch_pc = "idle" /\ fetch_offset = 0
    /\ fetch_all_items = <<>> /\ fetch_total_items = None /\ fetch_result = None
    /\ batch_queries = 0 /\ batch_aborted = FALSE

\* the day the model starts on
FirstDay == [year |-> 2025, month |-> 12, day |-> 3]

\* card_data_dir is empty and batch_update_core has not been called
ArchiveIdle ==
    /\ directory = <<>> /\ clock = FirstDay /\ days_passed = 0 /\ batch_call = None

\* the bulk pipeline has not run
BulkIdle == all_sold_items = <<>> /\ all_current_items = <<>> /\ grouped_data = None

\* the scripts have not run
ScriptIdle ==
    /\ ParserIdle /\ IndexIdle /\ GateIdle /\ FetchIdle /\ ArchiveIdle /\ BulkIdle
    /\ resume_outcome = None

OtherInit == MatcherIdle /\ MedianIdle /\ ListingIdle /\ CurrencyIdle /\ ScriptIdle

Init == CatalogInit /\ OtherInit

Next == CatalogRun

Spec == Init /\ [][Next]_vars

(***************************************************************************)
(* Claims about the catalog runs (Spec)                                    *)
(***************************************************************************)

FlatBuckets == {"nonFoil", "foil", "sealed", "preconstructed"}

\* the records of the four flat buckets of a set entry, in one sequence
FlatRecords(set_data) ==
    set_data.nonFoil \o set_data.foil \o set_data.sealed \o set_data.preconstructed

\* the records of the rarity sub-buckets of a foil state
RarityRecords(set_data, price_key, name_key) ==
    UNION {Range(set_data[price_key][r]) \cup Range(set_data[name_key][r]) :
            r \in DOMAIN set_data[price_key]}

\* C1: merge idempotence.  Whatever the output file holds and whatever the
\* upstream answers, a second run with the same answers writes the file the
\* first run wrote: same records, same buckets, same order in every list.
C1_MergeIdempotent ==
    \A env \in Upstreams :
        LET once == generate_card_data_from_tcgplayer(card_data, SET_GROUP_IDS, RARITIES, env, FALSE, "")
        IN  generate_card_data_from_tcgplayer(once, SET_GROUP_IDS, RARITIES, env, FALSE, "") = once

\* a file with records in which a run has just skipped products, and answers
\* that insert into it and are all skipped when they come again
C1_Witness ==
    /\ \E s \in DOMAIN card_data : skipped_count[s] > 0
    /\ \E env \in Upstreams :
        LET once == generate_card_data_from_tcgplayer(card_data, SET_GROUP_IDS, RARITIES, env, FALSE, "")
        IN  /\ once # card_data
            /\ \E s \in DOMAIN once : skipped_products(once, s, env) # {}
            /\ generate_card_data_from_tcgplayer(once, SET_GROUP_IDS, RARITIES, env, FALSE, "") = once

\* C2: in every set of the output file a product id is carried by one record
\* of one flat bucket only.
C2_ProductIdOnce ==
    \A s \in DOMAIN card_data :
        LET all == FlatRecords(card_data[s])
        IN  \A i, j \in 1..Len(all) :
                all[i].tcgplayerProductId = all[j].tcgplayerProductId => i = j

\* a set with records in two buckets in which the latest run skipped a product
C2_Witness ==
    \E s \in DOMAIN card_data :
        /\ skipped_count[s] > 0
        /\ Cardinality({b \in FlatBuckets : card_data[s][b] # <<>>}) >= 2

\* C3: a run leaves every record of the output file as it is, in its bucket:
\* same name, set and price strings, whatever the upstream says now.
C3_ExistingRecordsUntouched ==
    [][\A s \in DOMAIN card_data : \A b \in FlatBuckets :
            /\ s \in DOMAIN card_data'
            /\ Range(card_data[s][b]) \subseteq Range(card_data'[s][b])]_vars

\* the latest run skipped a product for which the upstream name or prices
\* would have given another record than the stored one
C3_Witness == stale_skips # {}

\* C4: every record of a rarity sub-bucket is in the flat bucket of its foil
\* state, and no sealed or preconstructed record is in a rarity sub-bucket or
\* in the foil bucket.
C4_SubBucketsWithinParents ==
    \A s \in DOMAIN card_data :
        LET d == card_data[s]
            others == Range(d.sealed) \cup Range(d.preconstructed)
        IN  /\ RarityRecords(d, "nonFoilByRarityPrice", "nonFoilByRarityName") \subseteq Range(d.nonFoil)
            /\ RarityRecords(d, "foilByRarityPrice", "foilByRarityName") \subseteq Range(d.foil)
            /\ others \cap RarityRecords(d, "nonFoilByRarityPrice", "nonFoilByRarityName") = {}
            /\ others \cap RarityRecords(d, "foilByRarityPrice", "foilByRarityName") = {}
            /\ others \cap Range(d.foil) = {}

\* a file with a card in a rarity sub-bucket, a sealed product and a
\* preconstructed single that upstream gives a rarity
C4_Witness ==
    /\ \E s \in DOMAIN card_data :
        RarityRecords(card_data[s], "foilByRarityPrice", "foilByRarityName") # {}
    /\ \E s \in DOMAIN card_data : card_data[s].sealed # <<>>
    /\ \E s \in DOMAIN card_data : card_data[s].preconstructed # <<>>

(***************************************************************************)
(* One run from an empty output file (SpecProduct)                         *)
(***************************************************************************)

MaxPriceSteps == 3

\* one set answers with a product-info file and a pricing response, the other
\* sets have no product-info file
SingleSetUpstream(set_name, products, rows) ==
    UpstreamOf([s \in Range(SET_GROUP_IDS) |->
        IF s = set_name
        THEN [product_info |-> [found |-> TRUE, products |-> products],
              pricing |-> <<[success |-> TRUE, results |-> rows]>>]
        ELSE [product_info |-> [found |-> FALSE, products |-> <<>>], pricing |-> None]])

\* product names: a card, a preconstructed single, a deck box, a deck and a
\* set box, behind and in front of other text
NamePrefixes == {"", "Booster Box ", "Preconstructed Deck Box ", "Preconstructed Deck: "}
NameCores == {"Blink", "Blink (Preconstructed Deck)", "Preconstructed Deck Box",
              "Preconstructed Deck", "Dragonlord Box"}
NameSuffixes == {"", " (Foil)", " (Pledge Pack)"}
ProductNames ==
    {""} \cup {p \o c \o x : p \in NamePrefixes, c \in NameCores, x \in NameSuffixes}

\* one product of any name, sub-type, set and rarity
NameUpstreams ==
    {SingleSetUpstream(s, <<ProductInfo(1, name, rarity)>>,
                       <<PriceRow(1, sub, Num(1000), Num(2000), Num(3000), Num(2500))>>) :
        s \in Range(SET_GROUP_IDS), name \in ProductNames,
        rarity \in {"", "Elite"}, sub \in {"Normal", "Foil"}}

\* prices in thousandths of a dollar: null, 0 and multiples of 1.252
PriceValues == {None} \cup {Num(1252 * k) : k \in 0..MaxPriceSteps}

\* one card with any four prices
PriceUpstreams ==
    {SingleSetUpstream("Alpha", <<ProductInfo(1, "Blink", "Ordinary")>>,
                       <<PriceRow(1, "Normal", low, mid, high, market)>>) :
        low \in PriceValues, mid \in PriceValues, high \in PriceValues, market \in PriceValues}

\* two pricing rows for two cards: one row each, or both rows for one card
\* (its sub-types), or a row without a product id
VariantUpstreams ==
    {SingleSetUpstream("Alpha",
                       <<ProductInfo(1, "Blink", "Ordinary"), ProductInfo(2, "Zap", "Unique")>>,
                       <<PriceRow(i, a, Num(1000), Num(2000), Num(3000), Num(2500)),
                         PriceRow(j, b, Num(4000), Num(5000), Num(6000), Num(5500))>>) :
        i \in 0..2, j \in 0..2, a \in {"Normal", "Foil"}, b \in {"Normal", "Foil"}}

ProductUpstreams == NameUpstreams \cup PriceUpstreams \cup VariantUpstreams

ProductInit ==
    /\ card_data = <<>>
    /\ upstream \in ProductUpstreams
    /\ runs = 0
    /\ skipped_count = [s \in Range(SET_GROUP_IDS) |-> 0]
    /\ stale_skips = {}
    /\ OtherInit

\* the run of generate_card_data_from_tcgplayer that creates the output file
ProductRun ==
    /\ runs = 0
    /\ card_data' = generate_card_data_from_tcgplayer(card_data, SET_GROUP_IDS, RARITIES, upstream, FALSE, "")
    /\ skipped_count' = [s \in Range(SET_GROUP_IDS) |-> Cardinality(skipped_products(card_data, s, upstream))]
    /\ stale_skips' = {s \in Range(SET_GROUP_IDS) : stale_products(card_data, s, upstream) # {}}
    /\ runs' = 1
    /\ UNCHANGED <<upstream, beside_catalog>>

SpecProduct == ProductInit /\ [][ProductRun]_vars

(***************************************************************************)
(* Claims about one run from an empty output file (SpecProduct)            *)
(***************************************************************************)

\* the pricing rows of a set as the run receives them
PricingRows(env, set_name) ==
    IF ~env.bearer_token \/ ~env.product_info[set_name].found \/ env.pricing[set_name] = None
    THEN <<>>
    ELSE env.pricing[set_name][1].results

\* the name the product-info file of a set gives a product id, "" when it
\* gives none
ProductName(env, set_name, product_id) ==
    LET product_info_map == _load_product_info_file(env.product_info[set_name])
    IN  IF product_id \in DOMAIN product_info_map THEN product_info_map[product_id].name ELSE ""

\* the pricing rows of a set that are about a named product
NamedRows(env, set_name) ==
    {i \in 1..Len(PricingRows(env, set_name)) :
        /\ PricingRows(env, set_name)[i].productId # 0
        /\ ProductName(env, set_name, PricingRows(env, set_name)[i].productId) # ""}

\* the flat buckets of a set entry that hold a record of a product id
BucketsHolding(set_data, product_id) ==
    {b \in FlatBuckets : \E c \in Range(set_data[b]) : c.tcgplayerProductId = product_id}

\* a rarity sub-bucket of a set entry holds a record of a product id
InRarityBuckets(set_data, product_id) ==
    \E c \in RarityRecords(set_data, "nonFoilByRarityPrice", "nonFoilByRarityName")
             \cup RarityRecords(set_data, "foilByRarityPrice", "foilByRarityName") :
        c.tcgplayerProductId = product_id

\* C5: after a run from an empty output file, a product has as many records
\* as the pricing response has sub-types for it: one for its Normal row and
\* one for its Foil row.
C5_OneRecordPerVariant ==
    runs = 1 =>
        \A s \in Range(SET_GROUP_IDS) :
            LET rows == PricingRows(upstream, s)
                all == FlatRecords(card_data[s])
            IN  \A i \in NamedRows(upstream, s) :
                    Cardinality({k \in 1..Len(all) : all[k].tcgplayerProductId = rows[i].productId})
                    = Cardinality({rows[j].subTypeName :
                                      j \in {j \in 1..Len(rows) : rows[j].productId = rows[i].productId}})

C7_DeckBoxSealedOnly ==
    runs = 1 =>
        \A s \in Range(SET_GROUP_IDS) :
            \A i \in NamedRows(upstream, s) :
                LET id == PricingRows(upstream, s)[i].productId
                IN  In("Preconstructed Deck Box", ProductName(upstream, s, id))
                    => /\ BucketsHolding(card_data[s], id) = {"sealed"}
                       /\ ~InRarityBuckets(card_data[s], id)

\* a deck box with "(Foil)" in its name, a Foil pricing row and a rarity is
\* in the sealed bucket
C7_Witness ==
    /\ runs = 1
    /\ \E s \in Range(SET_GROUP_IDS) :
        \E i \in NamedRows(upstream, s) :
            LET row == PricingRows(upstream, s)[i]
                name == ProductName(upstream, s, row.productId)
            IN  /\ In("Preconstructed Deck Box", name)
                /\ In("(Foil)", name)
                /\ row.subTypeName = "Foil"
                /\ upstream.product_info[s].products[1].rarity = "Elite"
                /\ BucketsHolding(card_data[s], row.productId) = {"sealed"}

\* a price string shows an amount of thousandths of a dollar: two decimals,
\* and the nearest cent
Shows(price, amount) ==
    /\ Len(price) >= 4
    /\ CharAt(price, Len(price) - 2) = "."
    /\ \A i \in (1..Len(price)) \ {Len(price) - 2} : ord[CharAt(price, i)] \in ord["0"]..ord["9"]
    /\ 10 * parse_float(price) - 5 < amount
    /\ amount < 10 * parse_float(price) + 5

\* C8: the record of a product shows its low, mid and high price with null
\* read as 0, and as market price the market price of the row, or the mid
\* price (null read as 0) when the market price is null or 0; every priced
\* and named product gets its record, and four nulls give four times "0.00".
C8_PriceAggregation ==
    runs = 1 =>
        \A s \in Range(SET_GROUP_IDS) :
            LET price_map ==
                    IF PricingRows(upstream, s) = <<>> THEN <<>>
                    ELSE _create_price_mapping_from_group_pricing(upstream.pricing[s][1])
            IN  \A k \in 1..Len(price_map) :
                    LET id == price_map[k].product_id
                        row == price_map[k].price_info
                        amount(v) == IF v = None THEN 0 ELSE v[1]
                        market == IF row.marketPrice \in {None, Num(0)}
                                  THEN amount(row.midPrice) ELSE amount(row.marketPrice)
                    IN  ProductName(upstream, s, id) # ""
                        => \E c \in Range(FlatRecords(card_data[s])) :
                            /\ c.tcgplayerProductId = id
                            /\ Shows(c.tcgplayerLowPrice, amount(row.lowPrice))
                            /\ Shows(c.tcgplayerMidPrice, amount(row.midPrice))
                            /\ Shows(c.tcgplayerHighPrice, amount(row.highPrice))
                            /\ Shows(c.tcgplayerMarketPrice, market)
                            /\ (row.lowPrice = None /\ row.midPrice = None
                                /\ row.highPrice = None /\ row.marketPrice = None
                                => /\ c.tcgplayerLowPrice = "0.00" /\ c.tcgplayerMidPrice = "0.00"
                                   /\ c.tcgplayerHighPrice = "0.00" /\ c.tcgplayerMarketPrice = "0.00")

\* a row without a low price, with a market price of 0 and a mid price that
\* rounds up to the next cent, has given a record with the mid price as market
\* price
C8_Witness ==
    /\ runs = 1
    /\ \E s \in Range(SET_GROUP_IDS) :
        \E i \in NamedRows(upstream, s) :
            LET row == PricingRows(upstream, s)[i]
            IN  /\ row.lowPrice = None
                /\ row.marketPrice = Num(0)
                /\ row.midPrice = Num(3756)
                /\ \E c \in Range(card_data[s].nonFoil) :
                    /\ c.tcgplayerProductId = row.productId
                    /\ c.tcgplayerLowPrice = "0.00"
                    /\ c.tcgplayerMidPrice = "3.76"
                    /\ c.tcgplayerMarketPrice = "3.76"

(***************************************************************************)
(* Marketplace medians (ebay_bulk_fetch.py), for the listings of one       *)
(* (card, set, foil) key.  Prices are in quarter cents: a listing price is *)
(* a whole number of cents, a median of an even number of prices can end   *)
(* in half a cent and the mean of two medians in a quarter.                *)
(***************************************************************************)

MaxPrices == 3

\* the prices of a listing in USD: none given (the default "0.0"), 1.00, 2.50
ListingPrices == {0, 400, 1000}

\* sorted(prices)
RECURSIVE sorted(_)
sorted(prices) ==
    IF prices = <<>> THEN <<>>
    ELSE LET init == sorted(SubSeq(prices, 1, Len(prices) - 1))
             price == prices[Len(prices)]
             ahead == Cardinality({i \in 1..Len(init) : init[i] <= price})
         IN  SubSeq(init, 1, ahead) \o <<price>> \o SubSeq(init, ahead + 1, Len(init))

\* get_median that takes the middle of the list as it comes
get_median_unsorted(prices) ==
    IF prices = <<>> THEN 0
    ELSE LET n == Len(prices)
         IN  IF n % 2 = 0
             THEN (prices[n \div 2] + prices[n \div 2 + 1]) \div 2
             ELSE prices[n \div 2 + 1]

\* get_median (the lists of Python count from 0, the sequences here from 1)
get_median(prices) ==
    IF prices = <<>> THEN 0
    ELSE LET sorted_prices == sorted(prices)
             n == Len(sorted_prices)
         IN  IF n % 2 = 0
             THEN (sorted_prices[n \div 2] + sorted_prices[n \div 2 + 1]) \div 2
             ELSE sorted_prices[n \div 2 + 1]

\* the entry calculate_medians makes for one key; completed_prices holds the
\* sold prices
calculate_medians(sold, current) ==
    LET median_sold == get_median(sold)
        median_current == get_median(current)
        median_completed == get_median(sold)
        market_price ==
            IF median_sold > 0 /\ median_current > 0
            THEN (median_sold + median_current) \div 2
            ELSE (IF median_sold > 0 THEN median_sold ELSE median_current)
    IN  [avgSoldPrice |-> median_sold,
         avgCurrentPrice |-> median_current,
         avgCompletedPrice |-> median_completed,
         marketPrice |-> market_price,
         sold_count |-> Len(sold),
         current_count |-> Len(current)]

\* filter_and_group_listings files the price of a sold listing
GroupSold ==
    /\ medians = None
    /\ Len(sold_prices) < MaxPrices
    /\ \E price_usd \in ListingPrices : sold_prices' = Append(sold_prices, price_usd)
    /\ UNCHANGED <<current_prices, medians, beside_medians>>

\* filter_and_group_listings files the price of a current listing
GroupCurrent ==
    /\ medians = None
    /\ Len(current_prices) < MaxPrices
    /\ \E price_usd \in ListingPrices : current_prices' = Append(current_prices, price_usd)
    /\ UNCHANGED <<sold_prices, medians, beside_medians>>

\* calculate_medians on a key that has listings
CalculateMedians ==
    /\ medians = None
    /\ sold_prices # <<>> \/ current_prices # <<>>
    /\ medians' = <<calculate_medians(sold_prices, current_prices)>>
    /\ UNCHANGED <<sold_prices, current_prices, beside_medians>>

MedianNext == GroupSold \/ GroupCurrent \/ CalculateMedians

SpecMedians == Init /\ [][MedianNext]_vars

\* the k-th smallest of a list of prices
OrderStatistic(prices, k) ==
    CHOOSE x \in Range(prices) :
        /\ Cardinality({i \in 1..Len(prices) : prices[i] < x}) < k
        /\ k <= Cardinality({i \in 1..Len(prices) : prices[i] <= x})

\* twice the median of a list of prices, 0 for the empty list
TwiceMedian(prices) ==
    IF prices = <<>> THEN 0
    ELSE OrderStatistic(prices, (Len(prices) + 1) \div 2)
         + OrderStatistic(prices, Len(prices) \div 2 + 1)

MaxSets == 2

\* normalize_to_american_english: decompose, drop the combining marks,
\* compose what is left
RECURSIVE normalize_to_american_english(_)
normalize_to_american_english(text) ==
    IF text = "" THEN ""
    ELSE IF Head(text) = "^" THEN normalize_to_american_english(Tail(text))
    ELSE Head(text) \o normalize_to_american_english(Tail(text))

\* \w of a regular expression
is_word_char(c) ==
    \/ ord[c] \in ord["a"]..ord["z"]
    \/ ord[c] \in ord["A"]..ord["Z"]
    \/ ord[c] \in ord["0"]..ord["9"]
    \/ c = "_"

\* \b of a regular expression behind the first i characters of text
word_boundary(text, i) ==
    (i >= 1 /\ is_word_char(CharAt(text, i)))
        # (i < Len(text) /\ is_word_char(CharAt(text, i + 1)))

\* re.search(r'\b' + re.escape(word) + r'\b', text)
re_search_word(word, text) ==
    \E i \in 0..(Len(text) - Len(word)) :
        /\ SubSeq(text, i + 1, i + Len(word)) = word
        /\ word_boundary(text, i)
        /\ word_boundary(text, i + Len(word))

promo_sets ==
    <<"Dust Reward Promos", "Arthurian Legends Promo", "dustRewardPromo", "arthurianLegendsPromo">>

\* sorted(master_card_list.items(), key=len(card_name), reverse=True): stable,
\* so a card goes behind every card whose name is not shorter than its own
RECURSIVE cards_sorted(_)
cards_sorted(cards) ==
    IF cards = <<>> THEN <<>>
    ELSE LET init == cards_sorted(SubSeq(cards, 1, Len(cards) - 1))
             card == cards[Len(cards)]
             ahead == Cardinality({i \in 1..Len(init) :
                                     Len(init[i].card_name) >= Len(card.card_name)})
         IN  SubSeq(init, 1, ahead) \o <<card>> \o SubSeq(init, ahead + 1, Len(init))

\* sorted(card_info["sets"], key=len(set_name), reverse=True)
RECURSIVE sets_sorted(_)
sets_sorted(sets) ==
    IF sets = <<>> THEN <<>>
    ELSE LET init == sets_sorted(SubSeq(sets, 1, Len(sets) - 1))
             set_info == sets[Len(sets)]
             ahead == Cardinality({i \in 1..Len(init) :
                                     Len(init[i].set_name) >= Len(set_info.set_name)})
         IN  SubSeq(init, 1, ahead) \o <<set_info>> \o SubSeq(init, ahead + 1, Len(init))

\* the loop over the sets of a card whose name is in the title: the first set
\* that is named in the title, None when there is none
RECURSIVE first_set_in_title(_, _, _)
first_set_in_title(sets, normalized_title, normalized_promo_sets) ==
    IF sets = <<>> THEN None
    ELSE LET set_name == Head(sets).set_name
             normalized_set_name == lower(normalize_to_american_english(set_name))
         IN  IF set_name = ""
             THEN first_set_in_title(Tail(sets), normalized_title, normalized_promo_sets)
             ELSE IF normalized_set_name \in normalized_promo_sets
             THEN first_set_in_title(Tail(sets), normalized_title, normalized_promo_sets)
             ELSE IF re_search_word(normalized_set_name, normalized_title)
             THEN <<set_name>>
             ELSE first_set_in_title(Tail(sets), normalized_title, normalized_promo_sets)

\* the loop over the cards, longest name first
RECURSIVE first_card_in_title(_, _, _)
first_card_in_title(cards, normalized_title, normalized_promo_sets) ==
    IF cards = <<>> THEN None
    ELSE LET card_name == Head(cards).card_name
             normalized_card_name == lower(normalize_to_american_english(card_name))
             found == first_set_in_title(sets_sorted(Head(cards).sets),
                                         normalized_title, normalized_promo_sets)
         IN  IF ~re_search_word(normalized_card_name, normalized_title)
             THEN first_card_in_title(Tail(cards), normalized_title, normalized_promo_sets)
             ELSE IF found # None THEN <<card_name, found[1]>>
             ELSE first_card_in_title(Tail(cards), normalized_title, normalized_promo_sets)

\* a matcher that does not look for "promo" in the title
extract_card_info_from_title_promo_blind(listing_title, cards) ==
    LET normalized_title == lower(normalize_to_american_english(listing_title))
        normalized_promo_sets ==
            {lower(normalize_to_american_english(promo_sets[k])) : k \in 1..Len(promo_sets)}
    IN  first_card_in_title(cards_sorted(cards), normalized_title, normalized_promo_sets)

\* extract_card_info_from_title: <<card_name, set_name>>, or None
extract_card_info_from_title(listing_title, cards) ==
    LET normalized_title == lower(normalize_to_american_english(listing_title))
        normalized_promo_sets ==
            {lower(normalize_to_american_english(promo_sets[k])) : k \in 1..Len(promo_sets)}
    IN  IF In("promo", normalized_title) THEN None
        ELSE first_card_in_title(cards_sorted(cards), normalized_title, normalized_promo_sets)

CardNames == {"Erik's Curiosa", "Curiosa"}
SetNames == {"Alpha", "Beta", "Alpha Beta"}

\* the master card lists: the cards in the order of the file, each with the
\* sets it is printed in
MasterCardLists ==
    LET sets == {[k \in 1..Len(q) |-> [set_name |-> q[k]]] : q \in SeqsUpTo(SetNames, MaxSets)}
    IN  UNION {{[k \in 1..Len(names) |-> [card_name |-> names[k], sets |-> of[k]]] :
                    of \in [1..Len(names) -> sets]} :
               names \in SeqsUpTo(CardNames, Cardinality(CardNames))}

\* the titles of eBay listings
ListingTitles ==
    {"Erik's Curiosa Alpha", "Erik's Curiosa Beta", "ERIK'S CURIOSA - ALPHA BETA FOIL",
     "Sorcery Curiosa Beta NM", "E^rik's Curiosa^ (Beta)", "Erik's Curiosa",
     "Curiosas Alphabet", "Erik's Curiosa Alpha Promo", "Sorcery Beta booster"}

MatcherInit ==
    /\ title = ""
    /\ master_card_list \in MasterCardLists
    /\ matched = None
    /\ CatalogInit
    /\ MedianIdle
    /\ ListingIdle
    /\ CurrencyIdle
    /\ ScriptIdle

\* filter_and_group_listings asks for the card and set of the next listing
MatchListing ==
    /\ \E t \in ListingTitles :
        /\ title' = t
        /\ matched' = extract_card_info_from_title(t, master_card_list)
    /\ UNCHANGED <<master_card_list, beside_matcher>>

SpecMatcher == MatcherInit /\ [][MatchListing]_vars

\* C10: when the master card list has two cards, the name of one a word of
\* the name of the other, and the title of a listing without "promo" contains
\* the longer name, the matcher answers with the longer name or with no
\* match, never with the shorter name.
C10_LongerNamePreferred ==
    \A i, j \in 1..Len(master_card_list) :
        LET longer == master_card_list[i].card_name
            shorter == master_card_list[j].card_name
        IN  /\ Len(shorter) < Len(longer)
            /\ re_search_word(shorter, longer)
            /\ In(longer, title)
            /\ ~In("promo", lower(normalize_to_american_english(title)))
            => matched = None \/ matched[1] = longer

(***************************************************************************)
(* Listing filters and variant detector (ebay_parser.py)                   *)
(***************************************************************************)

UpperCaseLetters == "ABCDEFGHIJKLMNOPQRSTUVWXYZ"

\* str.upper() of one character
upper_char(c) ==
    IF ord[c] >= ord["a"] /\ ord[c] <= ord["z"]
    THEN CharAt(UpperCaseLetters, ord[c] - ord["a"] + 1)
    ELSE c

\* str.upper()
RECURSIVE upper(_)
upper(s) == IF s = "" THEN "" ELSE upper_char(Head(s)) \o upper(Tail(s))

\* " ".join(parts)
RECURSIVE join_with_space(_)
join_with_space(parts) ==
    IF parts = <<>> THEN ""
    ELSE IF Len(parts) = 1 THEN parts[1]
    ELSE parts[1] \o " " \o join_with_space(Tail(parts))

EXCLUSION_KEYWORDS ==
    <<"bulk", "lot", "lots", "bundle", "bundles",
      "multiple", "set of", "pack of", "group of",
      "collection", "playset", "play set",
      "curio", "booster box",
      "movie", "movies", "dvd", "blu-ray", "film">>

GRADED_KEYWORDS ==
    <<"psa", "bgs", "cgc", "sgc", "hga", "gma", "kga",
      "psa 10", "psa 9", "psa 8", "bgs 10", "bgs 9", "bgs 8",
      "cgc 10", "cgc 9", "cgc 8", "graded", "slab", "slabbed">>

\* a test for graded cards that compares the title as it is written
is_graded_card_as_written(item) ==
    \E k \in 1..Len(GRADED_KEYWORDS) : In(GRADED_KEYWORDS[k], item.title)

\* is_graded_card of a Buy API item
is_graded_card(item) ==
    LET item_title == lower(item.title)
    IN  \E k \in 1..Len(GRADED_KEYWORDS) : In(GRADED_KEYWORDS[k], item_title)

\* should_exclude_item of a Buy API item whose categoryPath is a list
should_exclude_item(item) ==
    LET item_title == lower(item.title)
        category_path == lower(join_with_space(item.categoryPath))
    IN  \E k \in 1..Len(EXCLUSION_KEYWORDS) :
            In(EXCLUSION_KEYWORDS[k], item_title) \/ In(EXCLUSION_KEYWORDS[k], category_path)

\* a variant detector that looks for the foil keywords only
is_foil_item_keywords_only(item) ==
    \E item_title \in {lower(item.title)} :
        \E k \in 1..5 :
            In(<<"foil", "holo", "holofoil", "foil card", "foil version">>[k], item_title)

\* is_foil_item of a Buy API item (its title is a string)
is_foil_item(item) ==
    LET item_title == lower(item.title)
        non_foil_keywords == <<"nonfoil", "non-foil", "non foil">>
        foil_keywords == <<"foil", "holo", "holofoil", "foil card", "foil version">>
    IN  IF \E k \in 1..Len(non_foil_keywords) : In(non_foil_keywords[k], item_title)
        THEN FALSE
        ELSE \E k \in 1..Len(foil_keywords) : In(foil_keywords[k], item_title)

\* is_promo_card
is_promo_card(listing_title, set_name) ==
    LET normalized_title == lower(normalize_to_american_english(listing_title))
        normalized_set_name == lower(normalize_to_american_english(set_name))
    IN  IF In("promo", normalized_title) THEN TRUE
        ELSE \E k \in 1..Len(promo_sets) :
                lower(normalize_to_american_english(promo_sets[k])) = normalized_set_name

(***************************************************************************)
(* Currency conversion (ebay_bulk_fetch.py).  Amounts are in hundredths of *)
(* a cent and rates in percent, so that the product of a price in cents    *)
(* and a rate of two decimals is exact; the rate 1.0 is 100.               *)
(***************************************************************************)

\* what requests.get and raise_for_status can come back with: an error
\* (network, timeout, HTTP status), or the rates of the response, with or
\* without one for USD
ExchangeResponses ==
    {[ok |-> FALSE, usd |-> None], [ok |-> TRUE, usd |-> None],
     [ok |-> TRUE, usd |-> Num(0)], [ok |-> TRUE, usd |-> Num(125)], [ok |-> TRUE, usd |-> Num(80)]}

\* a lookup that answers the rate 0 when it fails
get_exchange_rate_to_usd_zero_on_failure(currency, cache, response) ==
    IF upper(currency) = "USD" THEN [rate |-> 100, cache |-> cache, requested |-> FALSE]
    ELSE IF upper(currency) \in DOMAIN cache
    THEN [rate |-> cache[upper(currency)], cache |-> cache, requested |-> FALSE]
    ELSE IF response.ok /\ response.usd # None /\ response.usd[1] # 0
    THEN [rate |-> response.usd[1],
          cache |-> (upper(currency) :> response.usd[1]) @@ cache,
          requested |-> TRUE]
    ELSE [rate |-> 0, cache |-> cache, requested |-> TRUE]

\* a lookup whose cache is keyed by the currency code as it was written
get_exchange_rate_to_usd_key_as_written(currency, cache, response) ==
    IF upper(currency) = "USD" THEN [rate |-> 100, cache |-> cache, requested |-> FALSE]
    ELSE IF currency \in DOMAIN cache
    THEN [rate |-> cache[currency], cache |-> cache, requested |-> FALSE]
    ELSE IF response.ok /\ response.usd # None /\ response.usd[1] # 0
    THEN [rate |-> response.usd[1],
          cache |-> (currency :> response.usd[1]) @@ cache,
          requested |-> TRUE]
    ELSE [rate |-> 100, cache |-> cache, requested |-> TRUE]

\* a lookup that stores the rate 1.0 it assumes when it fails
get_exchange_rate_to_usd_caching_failure(currency, cache, response) ==
    IF upper(currency) = "USD" THEN [rate |-> 100, cache |-> cache, requested |-> FALSE]
    ELSE IF upper(currency) \in DOMAIN cache
    THEN [rate |-> cache[upper(currency)], cache |-> cache, requested |-> FALSE]
    ELSE IF response.ok /\ response.usd # None /\ response.usd[1] # 0
    THEN [rate |-> response.usd[1],
          cache |-> (upper(currency) :> response.usd[1]) @@ cache,
          requested |-> TRUE]
    ELSE [rate |-> 100, cache |-> (upper(currency) :> 100) @@ cache, requested |-> TRUE]

\* get_exchange_rate_to_usd: the rate, the cache afterwards, and whether the
\* network was asked
get_exchange_rate_to_usd(currency, cache, response) ==
    IF upper(currency) = "USD" THEN [rate |-> 100, cache |-> cache, requested |-> FALSE]
    ELSE LET code == upper(currency)
         IN  IF code \in DOMAIN cache
             THEN [rate |-> cache[code], cache |-> cache, requested |-> FALSE]
             ELSE IF ~response.ok
             THEN [rate |-> 100, cache |-> cache, requested |-> TRUE]
             ELSE IF response.usd # None /\ response.usd[1] # 0
             THEN [rate |-> response.usd[1],
                   cache |-> (code :> response.usd[1]) @@ cache,
                   requested |-> TRUE]
             ELSE [rate |-> 100, cache |-> cache, requested |-> TRUE]

\* convert_price_to_usd: the price in USD, with the cache afterwards and
\* whether the network was asked
convert_price_to_usd(price_value, currency, cache, response) ==
    IF upper(currency) = "USD"
    THEN [price_usd |-> price_value, cache |-> cache, requested |-> FALSE]
    ELSE LET got == get_exchange_rate_to_usd(currency, cache, response)
         IN  [price_usd |-> (price_value * got.rate) \div 100,
              cache |-> got.cache, requested |-> got.requested]

\* the record of a call of convert_price_to_usd that came back with got
conversion_record(price_value, currency, response, got) ==
    <<[currency |-> currency, price_value |-> price_value,
       price_usd |-> got.price_usd, requested |-> got.requested,
       response |-> response]>>

\* the prices converted, in hundredths of a cent: 10.00 and 2.50
Amounts == {100000, 25000}

\* the currency codes of the listings, in the letter cases they come in
Currencies == {"USD", "usd", "EUR", "eur", "Eur", "GBP"}

\* a call of convert_price_to_usd
ConvertPrice ==
    /\ \E price_value \in Amounts, currency \in Currencies, response \in ExchangeResponses :
          \E got \in {convert_price_to_usd(price_value, currency,
                                            _exchange_rate_cache, response)} :
              /\ _exchange_rate_cache' = got.cache
              /\ conversion' = conversion_record(price_value, currency, response, got)
    /\ UNCHANGED beside_currency

SpecCurrency == Init /\ [][ConvertPrice]_vars

(***************************************************************************)
(* Filtering and grouping of listings (ebay_bulk_fetch.py)                 *)
(***************************************************************************)

MaxListings == 2

\* float(price_value) of a text of digits with at most one point and at most
\* two decimals, in hundredths of a cent; None for the ValueError of a text
\* that is no number
float_of(price_value) ==
    LET digits == {i \in 1..Len(price_value) :
                      ord[CharAt(price_value, i)] \in ord["0"]..ord["9"]}
        points == {i \in 1..Len(price_value) : CharAt(price_value, i) = "."}
        point == IF points = {} THEN Len(price_value) + 1 ELSE CHOOSE i \in points : TRUE
        decimals == SubSeq(price_value, point + 1, Len(price_value))
    IN  IF digits = {} \/ Cardinality(points) > 1
           \/ digits \cup points # 1..Len(price_value)
        THEN None
        ELSE <<10000 * parse_digits(SubSeq(price_value, 1, point - 1), 0)
               + (IF Len(decimals) = 0 THEN 0
                  ELSE IF Len(decimals) = 1 THEN 1000 * parse_digits(decimals, 0)
                  ELSE 100 * parse_digits(SubSeq(decimals, 1, 2), 0))>>

\* the entry of a new key of grouped
new_group == [sold_prices |-> <<>>, current_prices |-> <<>>, completed_prices |-> <<>>]

\* the end of a turn of a loop of filter_and_group_listings for an item that
\* is neither graded nor excluded, card_info being the answer of the matcher
\* and price the answer of float()
group_listing(item, is_sold, groups, cache, latest, response, card_info, price) ==
    LET untouched(why) ==
            [outcome |-> why, grouped |-> groups, cache |-> cache, conversion |-> latest]
    IN  IF card_info = None THEN untouched("unmatched")
        ELSE IF is_promo_card(item.title, card_info[2]) THEN untouched("promo")
        ELSE IF price = None THEN untouched("no price")
        \* currency.upper() of convert_price_to_usd on None: an AttributeError,
        \* which the except clause for ValueError and TypeError lets through
        ELSE IF "currency" \in item.price.null THEN untouched("AttributeError")
        ELSE LET key == <<card_info[1], card_info[2], is_foil_item(item)>>
                 with_key == IF key \in DOMAIN groups THEN groups
                             ELSE (key :> new_group) @@ groups
             IN  \* convert_price_to_usd is called once, and answers got
                 CHOOSE after \in
                     {[outcome |-> "matched",
                       grouped |->
                         IF is_sold
                         THEN [with_key EXCEPT
                                  ![key].sold_prices = Append(@, got.price_usd),
                                  ![key].completed_prices = Append(@, got.price_usd)]
                         ELSE [with_key EXCEPT
                                  ![key].current_prices = Append(@, got.price_usd)],
                       cache |-> got.cache,
                       conversion |-> conversion_record(price[1], item.price.currency,
                                                        response, got)] :
                      got \in {convert_price_to_usd(price[1], item.price.currency,
                                                    cache, response)}} : TRUE

\* one turn of a loop of filter_and_group_listings, over the sold items or
\* over the current items: what becomes of the item, and grouped, the cache
\* and the latest conversion afterwards
handle_listing(item, is_sold, groups, cache, latest, response, cards) ==
    IF is_graded_card(item)
    THEN [outcome |-> "graded", grouped |-> groups, cache |-> cache, conversion |-> latest]
    ELSE IF should_exclude_item(item)
    THEN [outcome |-> "keywords", grouped |-> groups, cache |-> cache, conversion |-> latest]
    ELSE group_listing(item, is_sold, groups, cache, latest, response,
                       extract_card_info_from_title(item.title, cards),
                       IF "value" \in item.price.null THEN None
                       ELSE float_of(item.price.value))

\* the master card list of the listings
ListedCards ==
    <<[card_name |-> "Philosopher's Stone",
       sets |-> <<[set_name |-> "Arthurian Legends Promo"], [set_name |-> "Alpha"],
                  [set_name |-> "Beta"]>>],
      [card_name |-> "Death Dealer", sets |-> <<[set_name |-> "Alpha"]>>]>>

ListedTitles ==
    {"Philosopher's Stone Alpha Foil", "PSA 10 Philosopher's Stone Alpha Foil",
     "Philosopher's Stone Alpha Non-Foil", "Philosopher's Stone Beta lot of 4",
     "Philosopher's Stone Arthurian Legends Promo", "Philosopher's Stone Alpha Promo",
     "Death Dealer Alpha holo", "Death Dealer Alpha non foil holo", "Sorcery playmat"}

\* an item of the Buy API; null holds the keys of price whose value is null
Item(item_title, category_path, price_value, currency) ==
    [title |-> item_title, categoryPath |-> category_path,
     price |-> [value |-> price_value, currency |-> currency, null |-> {}]]

\* an item of the Buy API in which a key of price has the value null
ItemWithNull(item_title, key) ==
    [title |-> item_title, categoryPath |-> <<>>,
     price |-> [value |-> IF key = "value" THEN "" ELSE "2.50",
                currency |-> IF key = "currency" THEN "" ELSE "USD",
                null |-> {key}]]

\* the items of the Buy API: every title priced in dollars, one item priced
\* in euros, one in a category of lots, one whose price is no number, one
\* whose price value is null and one whose currency is null
Listings ==
    {Item(t, <<>>, "2.50", "USD") : t \in ListedTitles}
    \cup {Item("Death Dealer Alpha holo", <<>>, "10.00", "EUR"),
          Item("Philosopher's Stone Alpha Foil", <<"Collectible Card Games", "Bulk Lots">>,
                "2.50", "USD"),
          Item("Philosopher's Stone Alpha Foil", <<>>, "free", "USD"),
          ItemWithNull("Philosopher's Stone Alpha Foil", "value"),
          ItemWithNull("Death Dealer Alpha holo", "currency")}

\* the answers to an exchange-rate lookup while listings are grouped
ListingResponses == {[ok |-> FALSE, usd |-> None], [ok |-> TRUE, usd |-> Num(125)]}

ListingInit ==
    /\ ListingIdle
    /\ CurrencyIdle
    /\ title = "" /\ master_card_list = ListedCards /\ matched = None
    /\ CatalogInit
    /\ MedianIdle
    /\ ScriptIdle

\* the state after one turn of a loop of filter_and_group_listings
Handled(item, is_sold, response) ==
    \E got \in {handle_listing(item, is_sold, grouped, _exchange_rate_cache, conversion,
                                response, master_card_list)} :
        /\ listing' = <<item>>
        /\ outcome' = got.outcome
        /\ grouped' = got.grouped
        /\ _exchange_rate_cache' = got.cache
        /\ conversion' = got.conversion
        /\ processed_count' = processed_count + 1
        /\ phase' = IF got.outcome = "AttributeError" THEN "aborted" ELSE phase
        /\ UNCHANGED beside_listings

\* a turn of the loop over the sold items
HandleSoldItem ==
    /\ phase = "sold"
    /\ processed_count < MaxListings
    /\ \E item \in Listings, response \in ListingResponses : Handled(item, TRUE, response)

\* the loop over the sold items ends and the loop over the current items starts
StartCurrentItems ==
    /\ phase = "sold"
    /\ phase' = "current"
    /\ UNCHANGED <<listing, outcome, grouped, processed_count, currency_vars,
                   beside_listings>>

\* a turn of the loop over the current items
HandleCurrentItem ==
    /\ phase = "current"
    /\ processed_count < MaxListings
    /\ \E item \in Listings, response \in ListingResponses : Handled(item, FALSE, response)

ListingNext == HandleSoldItem \/ StartCurrentItems \/ HandleCurrentItem

SpecListings == ListingInit /\ [][ListingNext]_vars

\* the title of the listing of the latest turn, once a turn was taken
latest_title == listing[1].title

\* the promo-set exclusion list, normalized as the matcher normalizes it
normalized_promo_set_names ==
    {lower(normalize_to_american_english(promo_sets[k])) : k \in 1..Len(promo_sets)}

\* set_name is a set of the promo-set exclusion list
is_promo_set(set_name) ==
    lower(normalize_to_american_english(set_name)) \in normalized_promo_set_names

\* C11: the matcher answers no match for a title whose normalized form
\* contains "promo"; for any other title a pair it answers has a set of that
\* card's set list that is not one of the promo sets; and a turn of either
\* loop over a listing with "promo" in its title leaves every list of prices
\* of every group as it was, so that no group is ever one of a promo set.
C11_PromoNeverCounted ==
    [][processed_count' # processed_count =>
        \A info \in {extract_card_info_from_title(listing'[1].title, master_card_list)},
           is_promo \in {In("promo", lower(normalize_to_american_english(listing'[1].title)))} :
              /\ is_promo => info = None /\ grouped' = grouped
              /\ info # None =>
                    /\ \E i \in 1..Len(master_card_list) :
                          /\ master_card_list[i].card_name = info[1]
                          /\ \E j \in 1..Len(master_card_list[i].sets) :
                                master_card_list[i].sets[j].set_name = info[2]
                    /\ ~is_promo_set(info[2])
              /\ \A key \in DOMAIN grouped' : ~is_promo_set(key[2])
    ]_vars

\* a listing with a card, a set of the card and "promo" in its title came
\* after a listing that was grouped, and was not matched
C11_Witness ==
    /\ listing # None
    /\ latest_title = "Philosopher's Stone Alpha Promo"
    /\ outcome = "unmatched"
    /\ DOMAIN grouped = {<<"Philosopher's Stone", "Alpha", TRUE>>}

\* C12: a turn of either loop over a listing whose lower-cased title or
\* category path contains an exclusion keyword, or whose lower-cased title
\* contains a grading keyword, leaves the sold, current and completed prices
\* of every group as they were, and makes no new group.
C12_GradedAndLotsNeverCounted ==
    [][processed_count' # processed_count =>
        \A item_title \in {lower(listing'[1].title)},
           category_path \in {lower(join_with_space(listing'[1].categoryPath))} :
            (\/ \E k \in 1..Len(EXCLUSION_KEYWORDS) :
                    \/ In(EXCLUSION_KEYWORDS[k], item_title)
                    \/ In(EXCLUSION_KEYWORDS[k], category_path)
             \/ \E k \in 1..Len(GRADED_KEYWORDS) : In(GRADED_KEYWORDS[k], item_title))
            => grouped' = grouped
    ]_vars

\* the graded listing of the claim came after a listing of the same card that
\* was grouped, and the group holds the one price of the first
C12_Witness ==
    /\ listing # None
    /\ latest_title = "PSA 10 Philosopher's Stone Alpha Foil"
    /\ outcome = "graded"
    /\ phase = "sold"
    /\ DOMAIN grouped = {<<"Philosopher's Stone", "Alpha", TRUE>>}
    /\ grouped[<<"Philosopher's Stone", "Alpha", TRUE>>] =
            [sold_prices |-> <<25000>>, current_prices |-> <<>>, completed_prices |-> <<25000>>]

\* C13: is_foil_item answers false for a title that, lower-cased, contains
\* "nonfoil", "non-foil" or "non foil", whatever else it contains; for any
\* other title it answers true exactly when the lower-cased title contains a
\* foil keyword, each of which contains "foil" or "holo".  The group a
\* listing goes to is the group of the variant so decided.
C13_NonFoilWins ==
    listing # None =>
        \A item_title \in {lower(latest_title)} :
            \A expected \in {IF \/ In("nonfoil", item_title)
                                 \/ In("non-foil", item_title)
                                 \/ In("non foil", item_title)
                              THEN FALSE
                              ELSE In("foil", item_title) \/ In("holo", item_title)} :
                /\ is_foil_item(listing[1]) = expected
                /\ outcome = "matched" =>
                      \E key \in DOMAIN grouped :
                          /\ key[3] = expected
                          /\ re_search_word(lower(key[1]), item_title)

\* a listing whose title has "Non-Foil", and so "foil", went to the non-foil
\* group of its card and set
C13_Witness ==
    /\ listing # None
    /\ latest_title = "Philosopher's Stone Alpha Non-Foil"
    /\ outcome = "matched"
    /\ DOMAIN grouped = {<<"Philosopher's Stone", "Alpha", FALSE>>}

\* C14: when the lookup of an exchange rate is made and fails, by an error of
\* the network or of HTTP or by a response without a rate for USD, the
\* conversion answers the amount times 1.0, the amount itself, and the call
\* ends without an error: 10.00 EUR gives 10.00 USD.
C14_FailedLookupKeepsAmount ==
    (/\ conversion # None
     /\ conversion[1].requested
     /\ ~conversion[1].response.ok \/ conversion[1].response.usd = None)
    => conversion[1].price_usd = conversion[1].price_value

\* 10.00 EUR was converted while the lookup failed
C14_Witness ==
    /\ conversion # None
    /\ conversion[1].currency = "EUR"
    /\ conversion[1].price_value = 100000
    /\ conversion[1].requested
    /\ ~conversion[1].response.ok
    /\ conversion[1].price_usd = 100000

\* C15: a conversion asks the network only when the currency, upper-cased, is
\* not USD and has no rate in the cache; a lookup that comes back with a rate
\* puts it in the cache under the upper-cased code; a rate in the cache stays
\* as it is; and a conversion of a currency whose upper-cased code has a rate
\* in the cache uses that rate and does not ask the network.
C15_LookupOnlyWhenNotCached ==
    [][conversion' # None =>
        \A code \in {upper(conversion'[1].currency)} :
            /\ conversion'[1].requested =>
                  code # "USD" /\ code \notin DOMAIN _exchange_rate_cache
            /\ (/\ conversion'[1].requested
                /\ conversion'[1].response.ok
                /\ conversion'[1].response.usd # None
                /\ conversion'[1].response.usd[1] # 0)
               => /\ code \in DOMAIN _exchange_rate_cache'
                  /\ _exchange_rate_cache'[code] = conversion'[1].response.usd[1]
            /\ \A cached \in DOMAIN _exchange_rate_cache :
                  /\ cached \in DOMAIN _exchange_rate_cache'
                  /\ _exchange_rate_cache'[cached] = _exchange_rate_cache[cached]
            /\ code \in DOMAIN _exchange_rate_cache =>
                  /\ ~conversion'[1].requested
                  /\ 100 * conversion'[1].price_usd
                        = conversion'[1].price_value * _exchange_rate_cache[code]
    ]_vars

\* the rate of EUR is cached, and 10.00 "eur" was converted with it while the
\* network would have failed
C15_Witness ==
    /\ conversion # None
    /\ "EUR" \in DOMAIN _exchange_rate_cache
    /\ _exchange_rate_cache["EUR"] = 125
    /\ conversion[1].currency = "eur"
    /\ conversion[1].price_value = 100000
    /\ ~conversion[1].requested
    /\ ~conversion[1].response.ok
    /\ conversion[1].price_usd = 125000

(***************************************************************************)
(* Resumable marketplace run (ebay_parser.py).  Averages are in hundredths *)
(* of a cent; the prices of the listings are whole cents.                  *)
(***************************************************************************)

MaxParserRuns == 2

\* the number of cards between two saves of a run: SAVE_INTERVAL, which is 50
\* in the code
SaveInterval == 2

\* the card and set combinations in the order of the two loops over the
\* master card list
ParserCombinations ==
    <<[card_name |-> "Philosopher's Stone", set_name |-> "Alpha", rarity |-> "Unique"],
      [card_name |-> "Philosopher's Stone", set_name |-> "Beta", rarity |-> "Unique"],
      [card_name |-> "Death Dealer", set_name |-> "Alpha", rarity |-> "Elite"]>>

\* float(text) > 0 of a price of the output file
positive(text) == parse_float(text) > 0

\* a check that finds no combination complete
_is_card_complete_unchecked(existing_data, card_name, set_name) == FALSE

\* _is_card_complete
_is_card_complete(existing_data, card_name, set_name) ==
    IF set_name \notin DOMAIN existing_data THEN FALSE
    ELSE LET found(cards) ==
                 \E i \in 1..Len(cards) :
                     /\ cards[i].name = card_name
                     /\ \/ positive(cards[i].price)
                        \/ positive(cards[i].avgSoldPrice)
                        \/ positive(cards[i].avgCurrentPrice)
         IN  found(existing_data[set_name].nonFoil) /\ found(existing_data[set_name].foil)

\* the prices a loop over the items of one query keeps: of the items of the
\* variant that are not graded and whose price is a number
RECURSIVE kept_prices(_, _)
kept_prices(items, is_foil) ==
    IF items = <<>> THEN <<>>
    ELSE IF is_foil_item(Head(items)) = is_foil /\ ~is_graded_card(Head(items))
            /\ float_of(Head(items).price.value) # None
    THEN <<float_of(Head(items).price.value)[1]>> \o kept_prices(Tail(items), is_foil)
    ELSE kept_prices(Tail(items), is_foil)

RECURSIVE sum(_)
sum(prices) == IF prices = <<>> THEN 0 ELSE Head(prices) + sum(Tail(prices))

\* sum(prices) / len(prices) if prices else 0.0
average(prices) == IF prices = <<>> THEN 0 ELSE sum(prices) \div Len(prices)

\* the market price of a variant from its two averages
market_price(avg_sold_price, avg_current_price) ==
    IF avg_sold_price > 0 /\ avg_current_price > 0
    THEN (avg_sold_price + avg_current_price) \div 2
    ELSE IF avg_sold_price > 0 THEN avg_sold_price
    ELSE IF avg_current_price > 0 THEN avg_current_price
    ELSE 0

\* card_info_nonfoil, card_info_foil
parser_card_info(of, is_foil, avg_sold_price, avg_current_price) ==
    [name |-> of.card_name,
     price |-> format_2f(market_price(avg_sold_price, avg_current_price) \div 10),
     avgSoldPrice |-> format_2f(avg_sold_price \div 10),
     avgCurrentPrice |-> format_2f(avg_current_price \div 10),
     condition |-> IF is_foil THEN "NMF" ELSE "NM",
     rarity |-> of.rarity,
     set_name |-> of.set_name]

\* the entry of a set that the output file of ebay_parser does not hold yet
new_parser_set_data ==
    [nonFoil |-> <<>>, foil |-> <<>>, nonFoilByName |-> <<>>, foilByName |-> <<>>,
     nonFoilByRarityPrice |-> [r \in Range(RARITIES) |-> <<>>],
     foilByRarityPrice |-> [r \in Range(RARITIES) |-> <<>>],
     nonFoilByRarityName |-> [r \in Range(RARITIES) |-> <<>>],
     foilByRarityName |-> [r \in Range(RARITIES) |-> <<>>]]

\* the body of the two loops for a combination that is not complete: the four
\* queries answered with fetched, the records of the two variants are appended
fetch_card_set(data, of, fetched) ==
    \E card_info_nonfoil \in
          {parser_card_info(of, FALSE,
                            average(kept_prices(fetched.sold_nonfoil, FALSE)),
                            average(kept_prices(fetched.current_nonfoil, FALSE)))},
       card_info_foil \in
          {parser_card_info(of, TRUE,
                            average(kept_prices(fetched.sold_foil, TRUE)),
                            average(kept_prices(fetched.current_foil, TRUE)))},
       with_set \in
          {IF of.set_name \in DOMAIN data THEN data
           ELSE (of.set_name :> new_parser_set_data) @@ data} :
        parser_memory' =
            [with_set EXCEPT
                ![of.set_name].nonFoil = Append(@, card_info_nonfoil),
                ![of.set_name].foil = Append(@, card_info_foil),
                ![of.set_name].nonFoilByRarityPrice[of.rarity] = Append(@, card_info_nonfoil),
                ![of.set_name].nonFoilByRarityName[of.rarity] = Append(@, card_info_nonfoil),
                ![of.set_name].foilByRarityPrice[of.rarity] = Append(@, card_info_foil),
                ![of.set_name].foilByRarityName[of.rarity] = Append(@, card_info_foil)]

\* a sort by price that puts the lowest price first
RECURSIVE parser_sort_by_price_ascending(_)
parser_sort_by_price_ascending(cards) ==
    IF cards = <<>> THEN <<>>
    ELSE LET init == parser_sort_by_price_ascending(SubSeq(cards, 1, Len(cards) - 1))
             card == cards[Len(cards)]
             ahead == Cardinality({i \in 1..Len(init) :
                                     parse_float(init[i].price) <= parse_float(card.price)})
         IN  SubSeq(init, 1, ahead) \o <<card>> \o SubSeq(init, ahead + 1, Len(init))

\* sorted(cards, key=float(price), reverse=True): stable
RECURSIVE parser_sort_by_price(_)
parser_sort_by_price(cards) ==
    IF cards = <<>> THEN <<>>
    ELSE LET init == parser_sort_by_price(SubSeq(cards, 1, Len(cards) - 1))
             card == cards[Len(cards)]
             ahead == Cardinality({i \in 1..Len(init) :
                                     parse_float(init[i].price) >= parse_float(card.price)})
         IN  SubSeq(init, 1, ahead) \o <<card>> \o SubSeq(init, ahead + 1, Len(init))

\* sorted(cards, key=name): stable, the names compared as they are written
RECURSIVE parser_sort_by_name(_)
parser_sort_by_name(cards) ==
    IF cards = <<>> THEN <<>>
    ELSE LET init == parser_sort_by_name(SubSeq(cards, 1, Len(cards) - 1))
             card == cards[Len(cards)]
             ahead == Cardinality({i \in 1..Len(init) : ~str_lt(card.name, init[i].name)})
         IN  SubSeq(init, 1, ahead) \o <<card>> \o SubSeq(init, ahead + 1, Len(init))

\* the final sorting of one set
parser_sorted_set(set_data) ==
    [nonFoil |-> parser_sort_by_price(set_data.nonFoil),
     nonFoilByName |-> parser_sort_by_name(parser_sort_by_price(set_data.nonFoil)),
     foil |-> parser_sort_by_price(set_data.foil),
     foilByName |-> parser_sort_by_name(parser_sort_by_price(set_data.foil)),
     nonFoilByRarityPrice |->
        [r \in Range(RARITIES) |-> parser_sort_by_price(set_data.nonFoilByRarityPrice[r])],
     nonFoilByRarityName |->
        [r \in Range(RARITIES) |-> parser_sort_by_name(set_data.nonFoilByRarityName[r])],
     foilByRarityPrice |->
        [r \in Range(RARITIES) |-> parser_sort_by_price(set_data.foilByRarityPrice[r])],
     foilByRarityName |->
        [r \in Range(RARITIES) |-> parser_sort_by_name(set_data.foilByRarityName[r])]]

\* the items of the marketplace for the queries of the run
Listed(item_title, price_value) == Item(item_title, <<>>, price_value, "USD")

\* what the four queries for a card and set come back with: listings of both
\* variants; no listing; foil listings only, with a foil listing among the
\* non-foil answers and a graded one among the foil
FetchedListings ==
    {[sold_nonfoil |-> <<Listed("Sorcery card", "2.00")>>,
      sold_foil |-> <<Listed("Sorcery card foil", "5.00")>>,
      current_nonfoil |-> <<Listed("Sorcery card", "3.00"), Listed("Sorcery card NM", "5.00")>>,
      current_foil |-> <<>>],
     [sold_nonfoil |-> <<>>, sold_foil |-> <<>>,
      current_nonfoil |-> <<>>, current_foil |-> <<>>],
     [sold_nonfoil |-> <<Listed("Sorcery card foil", "9.00")>>,
      sold_foil |-> <<Listed("PSA 9 Sorcery card foil", "50.00"),
                      Listed("Sorcery card foil", "5.00")>>,
      current_nonfoil |-> <<>>, current_foil |-> <<>>]}

\* generate_card_data_json starts: the output file is loaded, and the
\* combinations that are complete in it are counted
StartParserRun ==
    /\ parser_pc = "idle"
    /\ parser_runs < MaxParserRuns
    /\ parser_runs' = parser_runs + 1
    /\ parser_pc' = "running"
    /\ parser_memory' = parser_file
    /\ combination' = 1
    /\ cards_processed' =
          Cardinality({k \in 1..Len(ParserCombinations) :
                          _is_card_complete(parser_file, ParserCombinations[k].card_name,
                                            ParserCombinations[k].set_name)})
    /\ UNCHANGED <<parser_file, beside_parser>>

\* one turn of the loops: a complete combination is passed over, any other is
\* fetched and appended, and every SaveInterval cards the file is written
ProcessCardSet ==
    /\ parser_pc = "running"
    /\ combination <= Len(ParserCombinations)
    /\ combination' = combination + 1
    /\ IF _is_card_complete(parser_memory, ParserCombinations[combination].card_name,
                            ParserCombinations[combination].set_name)
       THEN UNCHANGED <<parser_memory, cards_processed, parser_file>>
       ELSE /\ \E fetched \in FetchedListings :
                  fetch_card_set(parser_memory, ParserCombinations[combination], fetched)
            /\ cards_processed' = cards_processed + 1
            /\ parser_file' = IF (cards_processed + 1) % SaveInterval = 0
                              THEN parser_memory' ELSE parser_file
    /\ UNCHANGED <<parser_pc, parser_runs, beside_parser>>

\* the loops are over: every set is sorted and the file is written
FinishParserRun ==
    /\ parser_pc = "running"
    /\ combination > Len(ParserCombinations)
    /\ parser_file' = [set_name \in DOMAIN parser_memory |->
                          parser_sorted_set(parser_memory[set_name])]
    /\ parser_memory' = <<>>
    /\ parser_pc' = "idle"
    /\ combination' = 0
    /\ UNCHANGED <<cards_processed, parser_runs, beside_parser>>

\* the process is ended while the run is under way: the file stays as the
\* latest save left it
InterruptParserRun ==
    /\ parser_pc = "running"
    /\ parser_memory' = <<>>
    /\ parser_pc' = "idle"
    /\ combination' = 0
    /\ UNCHANGED <<parser_file, cards_processed, parser_runs, beside_parser>>

ParserNext == StartParserRun \/ ProcessCardSet \/ FinishParserRun \/ InterruptParserRun

SpecParser == Init /\ [][ParserNext]_vars

\* the names of the records of a bucket are all different
one_record_per_name(cards) ==
    \A i, j \in 1..Len(cards) : cards[i].name = cards[j].name => i = j

\* C16: after any sequence of runs of ebay_parser against the same output
\* file, runs ended after a save and resumed among them, and whatever
\* listings a card has, the nonFoil bucket and the foil bucket of every set of
\* the file hold at most one record of a card name.
C16_OneRecordPerCardName ==
    \A set_name \in DOMAIN parser_file :
        /\ one_record_per_name(parser_file[set_name].nonFoil)
        /\ one_record_per_name(parser_file[set_name].foil)

(***************************************************************************)
(* The index files: written from medians (ebay_bulk_fetch.py) and by the   *)
(* catalog pipeline.  Medians are in quarter cents.                        *)
(***************************************************************************)

MaxMedians == 2

\* the master card list of the generator: name -> sets, each with a rarity
IndexCards ==
    <<[card_name |-> "Apprentice Wizard",
       sets |-> <<[set_name |-> "Alpha", rarity |-> "Ordinary"]>>],
      [card_name |-> "blink",
       sets |-> <<[set_name |-> "Alpha", rarity |-> "Ordinary"]>>],
      [card_name |-> "Zap",
       sets |-> <<[set_name |-> "Alpha", rarity |-> "Ordinary"],
                  [set_name |-> "Beta", rarity |-> "Unique"]>>]>>

\* an item of the medians: its key and the median prices of the key
MedianEntry(card_name, set_name, is_foil, market) ==
    [card_name |-> card_name, set_name |-> set_name, is_foil |-> is_foil,
     median_data |-> calculate_medians(<<market>>, <<market>>)]

\* the items the medians can hold: two of one market price, one of a higher,
\* and a foil
MedianEntries ==
    {MedianEntry("Apprentice Wizard", "Alpha", FALSE, 1000),
     MedianEntry("blink", "Alpha", FALSE, 1000),
     MedianEntry("Zap", "Alpha", FALSE, 2000),
     MedianEntry("Zap", "Alpha", TRUE, 3000)}

median_key(entry) == <<entry.card_name, entry.set_name, entry.is_foil>>

\* the medians: a dict, its items in the order of insertion
MedianDicts ==
    {q \in SeqsUpTo(MedianEntries, MaxMedians) :
        \A i, j \in 1..Len(q) : median_key(q[i]) = median_key(q[j]) => i = j}

\* f"{x:.2f}" of x quarter cents that make whole cents
format_quarter_cents(x) == format_2f((x * 5) \div 2)

\* the sets of the master card list
all_sets(cards) ==
    UNION {{cards[i].sets[j].set_name : j \in 1..Len(cards[i].sets)} : i \in 1..Len(cards)}

\* the set_info of a card for a set: <<set_info>>, or None
set_info_of(cards, card_name, set_name) ==
    IF \E i \in 1..Len(cards) :
          /\ cards[i].card_name = card_name
          /\ \E j \in 1..Len(cards[i].sets) : cards[i].sets[j].set_name = set_name
    THEN LET card == cards[CHOOSE i \in 1..Len(cards) : cards[i].card_name = card_name]
             first == CHOOSE j \in 1..Len(card.sets) :
                         /\ card.sets[j].set_name = set_name
                         /\ \A k \in 1..(j - 1) : card.sets[k].set_name # set_name
         IN  <<card.sets[first]>>
    ELSE None

\* the loop over the medians: the entry of each item goes to the lists of its
\* variant (every rarity of the master card list is one of RARITIES, and no
\* set of it has a slug)
RECURSIVE add_median_cards(_, _, _)
add_median_cards(data, entries, cards) ==
    IF entries = <<>> THEN data
    ELSE \* the items before the last are added first
         CHOOSE after \in
           {IF set_info = None THEN before
            ELSE LET of == entries[Len(entries)]
                     rarity == set_info[1].rarity
                     card_entry ==
                         [name |-> of.card_name,
                          price |-> format_quarter_cents(of.median_data.marketPrice),
                          avgSoldPrice |-> format_quarter_cents(of.median_data.avgSoldPrice),
                          avgCurrentPrice |-> format_quarter_cents(of.median_data.avgCurrentPrice),
                          condition |-> IF of.is_foil THEN "NMF" ELSE "NM",
                          rarity |-> rarity,
                          slug |-> "",
                          set_name |-> of.set_name]
                 IN  IF of.is_foil
                     THEN [before EXCEPT
                             ![of.set_name].foil = Append(@, card_entry),
                             ![of.set_name].foilByName = Append(@, card_entry),
                             ![of.set_name].foilByRarityPrice[rarity] = Append(@, card_entry),
                             ![of.set_name].foilByRarityName[rarity] = Append(@, card_entry)]
                     ELSE [before EXCEPT
                             ![of.set_name].nonFoil = Append(@, card_entry),
                             ![of.set_name].nonFoilByName = Append(@, card_entry),
                             ![of.set_name].nonFoilByRarityPrice[rarity] = Append(@, card_entry),
                             ![of.set_name].nonFoilByRarityName[rarity] = Append(@, card_entry)] :
            before \in {add_median_cards(data, SubSeq(entries, 1, Len(entries) - 1), cards)},
            set_info \in {set_info_of(cards, entries[Len(entries)].card_name,
                                      entries[Len(entries)].set_name)}} : TRUE

\* the sorting of the lists of one set
median_sorted_set(set_data) ==
    [nonFoil |-> parser_sort_by_price(set_data.nonFoil),
     foil |-> parser_sort_by_price(set_data.foil),
     nonFoilByName |-> parser_sort_by_name(set_data.nonFoilByName),
     foilByName |-> parser_sort_by_name(set_data.foilByName),
     nonFoilByRarityPrice |->
        [r \in Range(RARITIES) |-> parser_sort_by_price(set_data.nonFoilByRarityPrice[r])],
     foilByRarityPrice |->
        [r \in Range(RARITIES) |-> parser_sort_by_price(set_data.foilByRarityPrice[r])],
     nonFoilByRarityName |->
        [r \in Range(RARITIES) |-> parser_sort_by_name(set_data.nonFoilByRarityName[r])],
     foilByRarityName |->
        [r \in Range(RARITIES) |-> parser_sort_by_name(set_data.foilByRarityName[r])]]

\* _generate_card_data_from_medians: the content of the file it writes
_generate_card_data_from_medians(entries, cards) ==
    LET all_sets_processed_data ==
            add_median_cards([set_name \in all_sets(cards) |-> new_parser_set_data],
                             entries, cards)
    IN  [set_name \in all_sets(cards) |-> median_sorted_set(all_sets_processed_data[set_name])]

\* the product-info file of Alpha when the index is written
IndexProducts ==
    [found |-> TRUE,
     products |-> <<ProductInfo(1, "Apprentice Wizard", "Ordinary"),
                    ProductInfo(2, "blink", "Ordinary"),
                    ProductInfo(3, "Zap", "Ordinary")>>]

\* the pricing rows of Alpha: two of one market price, one of a higher, and a
\* foil
IndexPriceRows ==
    {PriceRow(1, "Normal", Num(2000), Num(2500), Num(3000), Num(2500)),
     PriceRow(2, "Normal", Num(2000), Num(2500), Num(3000), Num(2500)),
     PriceRow(3, "Normal", Num(3000), Num(4000), Num(5000), Num(4000)),
     PriceRow(3, "Foil", Num(8000), Num(9000), Num(9500), Num(9000))}

\* what a run of the catalog pipeline can meet upstream
IndexUpstreams ==
    {UpstreamOf([s \in Range(SET_GROUP_IDS) |->
                    IF s = "Alpha"
                    THEN [product_info |-> IndexProducts,
                          pricing |-> <<[success |-> TRUE, results |-> rs]>>]
                    ELSE [product_info |-> [found |-> FALSE, products |-> <<>>],
                          pricing |-> None]]) :
        rs \in {q \in SeqsUpTo(IndexPriceRows, MaxRows) \ {<<>>} :
                   \A i, j \in 1..Len(q) : q[i] = q[j] => i = j}}

\* a run of the catalog pipeline
IndexCatalogRun ==
    /\ \E env \in IndexUpstreams :
        /\ card_data' = generate_card_data_from_tcgplayer(card_data, SET_GROUP_IDS, RARITIES,
                                                          env, FALSE, "")
        /\ skipped_count' = [s \in Range(SET_GROUP_IDS) |->
                                Cardinality(skipped_products(card_data, s, env))]
        /\ stale_skips' = {s \in Range(SET_GROUP_IDS) : stale_products(card_data, s, env) # {}}
    /\ UNCHANGED <<upstream, runs, beside_catalog>>

\* a run of _generate_card_data_from_medians
GenerateFromMedians ==
    /\ \E entries \in MedianDicts :
        /\ median_input' = entries
        /\ ebay_card_data' = _generate_card_data_from_medians(entries, IndexCards)
    /\ UNCHANGED <<catalog_vars, beside_index>>

IndexNext == IndexCatalogRun \/ GenerateFromMedians

SpecIndex == Init /\ [][IndexNext]_vars

\* the numeric market price of a record of the catalog pipeline, in cents
catalog_price(card) == parse_float(card.tcgplayerMarketPrice)

\* the numeric price of a record of a marketplace file, in cents
marketplace_price(card) == parse_float(card.price)

\* a list of a set entry, by the path of its keys
list_at(set_data, path) ==
    IF Len(path) = 1 THEN set_data[path[1]] ELSE set_data[path[1]][path[2]]

\* the price-ordered lists of a set entry of the catalog pipeline
CatalogPriceLists ==
    {<<"nonFoil">>, <<"foil">>, <<"sealed">>, <<"preconstructed">>}
    \cup {<<by, r>> : by \in {"nonFoilByRarityPrice", "foilByRarityPrice"},
                       r \in Range(RARITIES)}

\* the price-ordered lists of a set entry of a marketplace file
MarketplacePriceLists ==
    {<<"nonFoil">>, <<"foil">>}
    \cup {<<by, r>> : by \in {"nonFoilByRarityPrice", "foilByRarityPrice"},
                       r \in Range(RARITIES)}

\* no record of the list has a higher price than a record before it
non_increasing(cards, price(_)) ==
    \A i, j \in 1..Len(cards) : i < j => price(cards[i]) >= price(cards[j])

\* the row of the pricing results that puts a product in the price map
first_row(results, product_id) ==
    CHOOSE k \in 1..Len(results) :
        /\ results[k].productId = product_id
        /\ \A m \in 1..(k - 1) : results[m].productId # product_id

\* the place of the item of the medians a record was made of
median_place(entries, card) ==
    CHOOSE k \in 1..Len(entries) :
        /\ entries[k].card_name = card.name
        /\ entries[k].set_name = card.set_name
        /\ entries[k].is_foil = (card.condition = "NMF")

\* a list of the catalog file after a run, against the same list before it:
\* of two records of one price, those that were in the file are in the order
\* they were in, a record that was in the file is before one that was not,
\* and of two that were not none is before the other when the price map of
\* the run has them the other way round
catalog_order_kept(before, after, old_file, new_file) ==
    \A a, b \in 1..Len(after) :
        (a < b /\ catalog_price(after[a]) = catalog_price(after[b])) =>
            /\ after[b] \in Range(before) => after[a] \in Range(before)
            /\ (after[a] \in Range(before) /\ after[b] \in Range(before)) =>
                  \E i, j \in 1..Len(before) :
                      i < j /\ before[i] = after[a] /\ before[j] = after[b]
            /\ (after[a] \notin Range(before) /\ after[b] \notin Range(before)) =>
                  \A env \in IndexUpstreams :
                      \A results \in {env.pricing["Alpha"][1].results} :
                          (/\ \E k \in 1..Len(results) :
                                  results[k].productId = after[a].tcgplayerProductId
                           /\ \E k \in 1..Len(results) :
                                  results[k].productId = after[b].tcgplayerProductId
                           /\ first_row(results, after[b].tcgplayerProductId)
                                < first_row(results, after[a].tcgplayerProductId))
                          => new_file # generate_card_data_from_tcgplayer(
                                            old_file, SET_GROUP_IDS, RARITIES, env, FALSE, "")

\* C17: after a run of the catalog pipeline that changes its file and after a
\* run of the generator of the marketplace file that changes its file, every
\* price-ordered list of every set (nonFoil, foil, sealed, preconstructed and
\* the lists by rarity and price) is in non-increasing order of its numeric
\* market price, and records of one price are in the order they were in
\* before the sort: the order of the file, then the order in which the run
\* appended them.
C17_PriceOrderStable ==
    [][/\ \/ UNCHANGED card_data
          \/ \A set_name \in DOMAIN card_data', path \in CatalogPriceLists :
                /\ non_increasing(list_at(card_data'[set_name], path), catalog_price)
                /\ catalog_order_kept(
                       IF set_name \in DOMAIN card_data
                       THEN list_at(card_data[set_name], path) ELSE <<>>,
                       list_at(card_data'[set_name], path), card_data, card_data')
       /\ \/ UNCHANGED <<median_input, ebay_card_data>>
          \/ \A set_name \in DOMAIN ebay_card_data', path \in MarketplacePriceLists :
                \A cards \in {list_at(ebay_card_data'[set_name], path)} :
                    /\ non_increasing(cards, marketplace_price)
                    /\ \A a, b \in 1..Len(cards) :
                          (a < b /\ marketplace_price(cards[a]) = marketplace_price(cards[b]))
                          => median_place(median_input', cards[a])
                               < median_place(median_input', cards[b])
    ]_vars

\* the catalog file holds three cards, the dearest first and the two of one
\* price behind it, and the marketplace file two cards of one price in the
\* order of the medians and not of their names
C17_Witness ==
    /\ "Alpha" \in DOMAIN card_data
    /\ Len(card_data["Alpha"].nonFoil) = 3
    /\ card_data["Alpha"].nonFoil[1].name = "Zap"
    /\ card_data["Alpha"].nonFoil[2].name = "blink"
    /\ card_data["Alpha"].nonFoil[3].name = "Apprentice Wizard"
    /\ "Alpha" \in DOMAIN ebay_card_data
    /\ Len(ebay_card_data["Alpha"].nonFoil) = 2
    /\ ebay_card_data["Alpha"].nonFoil[1].name = "blink"
    /\ ebay_card_data["Alpha"].nonFoil[2].name = "Apprentice Wizard"
    /\ ebay_card_data["Alpha"].nonFoil[1].price = ebay_card_data["Alpha"].nonFoil[2].price

\* the views by name of a set entry, each with its price-ordered counterpart
CatalogNameViews ==
    {<<<<by>>, <<by \o "ByName">>>> : by \in {"nonFoil", "foil", "sealed", "preconstructed"}}
    \cup {<<<<by \o "ByRarityPrice", r>>, <<by \o "ByRarityName", r>>>> :
             by \in {"nonFoil", "foil"}, r \in Range(RARITIES)}

MarketplaceNameViews ==
    {<<<<by>>, <<by \o "ByName">>>> : by \in {"nonFoil", "foil"}}
    \cup {<<<<by \o "ByRarityPrice", r>>, <<by \o "ByRarityName", r>>>> :
             by \in {"nonFoil", "foil"}, r \in Range(RARITIES)}

\* the two lists hold the same records, each as many times
same_records(p, q) ==
    /\ Len(p) = Len(q)
    /\ \A i \in 1..Len(p) :
          Cardinality({k \in 1..Len(p) : p[k] = p[i]})
            = Cardinality({k \in 1..Len(q) : q[k] = p[i]})

\* no record of the list has a name that, in lower case, is before the name
\* of a record before it
ascending_by_lower_name(cards) ==
    \A i, j \in 1..Len(cards) :
        i < j => ~str_lt(lower(cards[j].name), lower(cards[i].name))

\* a view by name against its price-ordered counterpart
name_view_of(set_data, view) ==
    /\ same_records(list_at(set_data, view[1]), list_at(set_data, view[2]))
    /\ ascending_by_lower_name(list_at(set_data, view[2]))

\* C18: in the catalog file and in the marketplace file, every view by name of
\* every set holds exactly the records of its price-ordered counterpart, in
\* ascending order of their names compared without regard to case.
C18_ByNameCaseInsensitive ==
    /\ \A set_name \in DOMAIN card_data, view \in CatalogNameViews :
          name_view_of(card_data[set_name], view)
    /\ \A set_name \in DOMAIN ebay_card_data, view \in MarketplaceNameViews :
          name_view_of(ebay_card_data[set_name], view)

(***************************************************************************)
(* The gate and the backoff of the requests to the marketplace             *)
(***************************************************************************)
MaxCalls == 2

\* what the caller spends between two calls, and what a request takes, in
\* tenths of a second
Pauses == {0, 3, 7}
Latencies == {0, 2}

\* time.time() when an answer is handled, in seconds
WallClocks == {1700000000}

\* the values of the header X-RateLimit-Reset; None is an answer without it
ResetHeaders ==
    {None, <<"">>, <<"soon">>, <<"0">>, <<"0.1">>, <<"2">>, <<"-1">>,
     <<"1000000000">>, <<"1000000001">>, <<"1700000002">>}

\* float(text) of a header, as whole seconds and tenths of one sign (further
\* decimals are left out); None is a ValueError
reset_float(text) ==
    LET negative == Len(text) > 0 /\ Head(text) = "-"
        body == IF negative THEN Tail(text) ELSE text
        digits == {i \in 1..Len(body) : ord[CharAt(body, i)] \in ord["0"]..ord["9"]}
        points == {i \in 1..Len(body) : CharAt(body, i) = "."}
        point == IF points = {} THEN Len(body) + 1 ELSE CHOOSE i \in points : TRUE
        whole == parse_digits(SubSeq(body, 1, point - 1), 0)
        tenth == IF point < Len(body) THEN digit_value(CharAt(body, point + 1)) ELSE 0
    IN  IF digits = {} \/ Cardinality(points) > 1 \/ digits \cup points # 1..Len(body)
        THEN None
        ELSE <<[seconds |-> IF negative THEN 0 - whole ELSE whole,
                tenths |-> IF negative THEN 0 - tenth ELSE tenth]>>

\* x > n, for x in seconds and tenths
above(x, n) == x.seconds > n \/ (x.seconds = n /\ x.tenths > 0)

\* wait_seconds for a reset time that float() gave; the clock is in whole
\* seconds
wait_seconds(reset_time, now) ==
    IF above(reset_time, 1000000000)
    THEN [seconds |-> reset_time.seconds - now, tenths |-> reset_time.tenths]
    ELSE reset_time

\* a timer after some tenths of a second more
advance(timer, more) ==
    IF timer + more < API_CALL_DELAY THEN timer + more ELSE API_CALL_DELAY

\* a timer after time.sleep(w)
advance_by_sleep(timer, w) ==
    IF w.seconds >= 1 THEN API_CALL_DELAY ELSE advance(timer, w.tenths)

\* the call as it stands
gate_state ==
    [time_since_last_call |-> time_since_last_call,
     time_since_request |-> time_since_request,
     request_gap |-> request_gap,
     retry_count |-> retry_count,
     retry_delay |-> retry_delay,
     slept |-> slept,
     gate_pc |-> gate_pc,
     returned |-> returned,
     requests_sent |-> requests_sent]

\* the end of the call, latency after its latest request
leave(g, latency, how) ==
    [g EXCEPT !.time_since_last_call = advance(@, latency),
              !.time_since_request = advance(@, latency),
              !.gate_pc = "idle",
              !.returned = how]

\* time.sleep(w), the new retry_delay, retry_count += 1 and the next turn of
\* the loop: another request while retry_count <= max_retries, or return None
retry_after(g, latency, w, delay) ==
    IF g.retry_count + 1 <= max_retries
    THEN [g EXCEPT !.time_since_last_call = advance_by_sleep(advance(@, latency), w),
                   !.request_gap = <<advance_by_sleep(advance(g.time_since_request, latency), w)>>,
                   !.time_since_request = 0,
                   !.requests_sent = @ + 1,
                   !.retry_count = @ + 1,
                   !.retry_delay = delay,
                   !.slept = <<w>>]
    ELSE [g EXCEPT !.time_since_last_call = advance_by_sleep(advance(@, latency), w),
                   !.time_since_request = advance_by_sleep(advance(@, latency), w),
                   !.retry_count = @ + 1,
                   !.retry_delay = delay,
                   !.slept = <<w>>,
                   !.gate_pc = "idle",
                   !.returned = "None"]

\* a backoff that multiplies the delay by four
backoff_doubling_twice(g, latency, how) ==
    IF g.retry_count < max_retries
    THEN retry_after(g, latency, [seconds |-> g.retry_delay, tenths |-> 0],
                     IF g.retry_delay * 4 < MAX_RETRY_DELAY
                     THEN g.retry_delay * 4 ELSE MAX_RETRY_DELAY)
    ELSE leave(g, latency, how)

\* the exponential backoff, or the end of the call when the retries are used up
backoff(g, latency, how) ==
    IF g.retry_count < max_retries
    THEN retry_after(g, latency, [seconds |-> g.retry_delay, tenths |-> 0],
                     IF g.retry_delay * 2 < MAX_RETRY_DELAY
                     THEN g.retry_delay * 2 ELSE MAX_RETRY_DELAY)
    ELSE leave(g, latency, how)

\* the reset time of an answer, when it has a header that float() takes:
\* <<reset_time>>, or None
reset_time_of(answer) ==
    IF answer.reset_header = None THEN None
    ELSE IF answer.reset_header[1] = "" THEN None
    ELSE reset_float(answer.reset_header[1])

\* a loop whose waits for a reset hint do not count as retries
handle_answer_hint_uncounted(g, answer, latency) ==
    IF answer.status_code = 429
    THEN CHOOSE after \in
           {IF reset_time = None THEN backoff(g, latency, "None")
            ELSE IF above(wait_seconds(reset_time[1], answer.time), 0)
            THEN [retry_after(g, latency, wait_seconds(reset_time[1], answer.time),
                              INITIAL_RETRY_DELAY) EXCEPT !.retry_count = g.retry_count]
            ELSE backoff(g, latency, "None") :
            reset_time \in {reset_time_of(answer)}} : TRUE
    ELSE IF answer.status_code = 200 THEN leave(g, latency, "response")
    ELSE backoff(g, latency, "raise")

\* one turn of the loop of _make_rate_limited_request, from the answer on;
\* status_code 0 stands for a request that raised without an answer
handle_answer(g, answer, latency) ==
    IF answer.status_code = 429
    THEN CHOOSE after \in
           {IF reset_time = None THEN backoff(g, latency, "None")
            ELSE IF above(wait_seconds(reset_time[1], answer.time), 0)
            THEN retry_after(g, latency, wait_seconds(reset_time[1], answer.time),
                             INITIAL_RETRY_DELAY)
            ELSE backoff(g, latency, "None") :
            reset_time \in {reset_time_of(answer)}} : TRUE
    ELSE IF answer.status_code = 200 THEN leave(g, latency, "response")
    ELSE backoff(g, latency, "raise")

\* a call of _make_rate_limited_request up to its first request:
\* _wait_for_rate_limit, then the first turn of the loop
CallRequest ==
    /\ gate_pc = "idle"
    /\ gate_calls < MaxCalls
    /\ \E pause \in Pauses :
         \E since \in {advance(time_since_last_call, pause)} :
           \E sleep_time \in {IF since < API_CALL_DELAY THEN API_CALL_DELAY - since ELSE 0} :
             /\ time_since_last_call' = 0
             /\ request_gap' = IF gate_calls = 0 THEN None
                               ELSE <<advance(advance(time_since_request, pause), sleep_time)>>
             /\ time_since_request' = 0
    /\ retry_count' = 0
    /\ retry_delay' = INITIAL_RETRY_DELAY
    /\ gate_response' = None
    /\ slept' = None
    /\ gate_pc' = "requested"
    /\ returned' = ""
    /\ gate_calls' = gate_calls + 1
    /\ requests_sent' = 1
    /\ UNCHANGED beside_gate

\* the request that is out is answered, and the loop goes on to its next
\* request or the call ends
Answered(answer) ==
    /\ gate_pc = "requested"
    /\ \E latency \in Latencies :
         \E g \in {handle_answer(gate_state, answer, latency)} :
           /\ time_since_last_call' = g.time_since_last_call
           /\ time_since_request' = g.time_since_request
           /\ request_gap' = g.request_gap
           /\ retry_count' = g.retry_count
           /\ retry_delay' = g.retry_delay
           /\ slept' = g.slept
           /\ gate_pc' = g.gate_pc
           /\ returned' = g.returned
           /\ requests_sent' = g.requests_sent
    /\ gate_response' = <<answer>>
    /\ UNCHANGED <<gate_calls, beside_gate>>

RespondOk ==
    \E now \in WallClocks :
        Answered([status_code |-> 200, reset_header |-> None, time |-> now])

RespondRateLimited ==
    \E now \in WallClocks, header \in ResetHeaders :
        Answered([status_code |-> 429, reset_header |-> header, time |-> now])

RespondError ==
    \E now \in WallClocks, status_code \in {0, 500} :
        Answered([status_code |-> status_code, reset_header |-> None, time |-> now])

GateNext == CallRequest \/ RespondOk \/ RespondRateLimited \/ RespondError

SpecGate == Init /\ [][GateNext]_vars

\* C19: every outbound request to the marketplace, a first attempt or a
\* retry, is sent at least API_CALL_DELAY after the outbound request before
\* it.
C19_RequestsSpaced ==
    request_gap = None \/ request_gap[1] >= API_CALL_DELAY

\* the wait a 429 answer asks for with a reset hint that is honored: a hint
\* above 1000000000 is the time of the reset, any other the seconds to it, and
\* the wait is honored when it is positive; <<wait>>, or None
honored_wait(answer) ==
    IF answer.status_code # 429 THEN None
    ELSE CHOOSE wait \in
           {IF hint = None THEN None
            ELSE IF hint[1].seconds > 1000000000
                    \/ (hint[1].seconds = 1000000000 /\ hint[1].tenths > 0)
            THEN (IF hint[1].seconds - answer.time > 0
                     \/ (hint[1].seconds - answer.time = 0 /\ hint[1].tenths > 0)
                  THEN <<[seconds |-> hint[1].seconds - answer.time,
                          tenths |-> hint[1].tenths]>>
                  ELSE None)
            ELSE (IF hint[1].seconds > 0 \/ (hint[1].seconds = 0 /\ hint[1].tenths > 0)
                  THEN hint
                  ELSE None) :
            hint \in {reset_time_of(answer)}} : TRUE

\* C20: in one call of _make_rate_limited_request the backoff delay starts at
\* INITIAL_RETRY_DELAY; an answer that is a 429 with a positive reset hint is
\* waited for as long as the hint says (a hint above 1000000000 as the time of
\* the reset, any other as seconds) and puts the delay back to
\* INITIAL_RETRY_DELAY; any other answer but a success, while retries are
\* left, is followed by a sleep of the delay, which then is exactly twice
\* what it was; and the delay is never above MAX_RETRY_DELAY.
C20_BackoffSchedule ==
    [][/\ retry_delay' <= MAX_RETRY_DELAY
       /\ (gate_pc = "idle" /\ gate_pc' = "requested") =>
             retry_delay' = INITIAL_RETRY_DELAY
       /\ gate_pc = "requested" =>
             \A answer \in {gate_response'[1]} :
               \A hint \in {honored_wait(answer)} :
                 IF hint # None
                 THEN /\ slept' = hint
                      /\ retry_delay' = INITIAL_RETRY_DELAY
                      /\ retry_count' = retry_count + 1
                 ELSE IF answer.status_code # 200 /\ retry_count < max_retries
                 THEN /\ slept' = <<[seconds |-> retry_delay, tenths |-> 0]>>
                      /\ retry_delay' = 2 * retry_delay
                      /\ retry_count' = retry_count + 1
                 ELSE /\ slept' = slept
                      /\ retry_delay' = retry_delay
                      /\ gate_pc' = "idle"
    ]_vars

\* the fifth retry of a call is out, after a sleep of INITIAL_RETRY_DELAY
\* that doubled the delay: the retry before it was one that waited for a
\* reset hint and put the delay back
C20_Witness ==
    /\ gate_pc = "requested"
    /\ retry_count = max_retries
    /\ retry_delay = 2 * INITIAL_RETRY_DELAY
    /\ slept = <<[seconds |-> INITIAL_RETRY_DELAY, tenths |-> 0]>>
    /\ gate_response # None
    /\ gate_response[1].status_code = 429

\* requests.get returns or raises: a request that is out is answered
SpecGateAnswered ==
    Init /\ [][GateNext]_vars
         /\ WF_vars(RespondOk \/ RespondRateLimited \/ RespondError)

\* C21: a call of _make_rate_limited_request never has sent more than
\* max_retries + 1 requests, whatever the answers, waits for a reset hint
\* included, and when its requests are answered it ends: it returns the
\* answer, returns None or raises.
C21_BoundedRetries ==
    /\ [](requests_sent <= max_retries + 1)
    /\ (gate_pc = "requested")
          ~> (gate_pc = "idle" /\ returned \in {"response", "None", "raise"})

\* a call has ended with None after max_retries + 1 requests, the last of
\* them answered by a 429 with a reset hint it waited for
C21_Witness ==
    /\ gate_pc = "idle"
    /\ returned = "None"
    /\ requests_sent = max_retries + 1
    /\ retry_count = max_retries + 1
    /\ honored_wait(gate_response[1]) # None

(***************************************************************************)
(* The fetch functions of the marketplace scripts                          *)
(***************************************************************************)
MaxQueries == 2

\* the pages a fetch function asks for at most: max_items / limit
MaxPages == 2

\* limit, the items of a full page
PageLimit == 1

FetchFunctions ==
    {"fetch_sold_ebay_card_data", "fetch_current_ebay_card_data",
     "fetch_all_sold_listings", "fetch_all_current_listings"}

\* the fetch functions of ebay_bulk_fetch
BulkFetchFunctions == {"fetch_all_sold_listings", "fetch_all_current_listings"}

\* the items of a page
FetchItems ==
    {Item("Philosopher's Stone Alpha Foil", <<>>, "2.50", "USD"),
     Item("PSA 10 Philosopher's Stone Alpha Foil", <<>>, "2.50", "USD")}

\* the JSON of an answer: itemSummaries and total
FetchAnswers ==
    [page_items : SeqsUpTo(FetchItems, PageLimit), total : {0, 1, 2, 3}]

\* the post-filtering of fetch_sold_ebay_card_data and
\* fetch_current_ebay_card_data
RECURSIVE filtered_items(_)
filtered_items(all) ==
    IF all = <<>> THEN <<>>
    ELSE IF is_graded_card(Head(all)) \/ should_exclude_item(Head(all))
    THEN filtered_items(Tail(all))
    ELSE <<Head(all)>> \o filtered_items(Tail(all))

\* the call as it stands
fetch_state ==
    [pc |-> fetch_pc, offset |-> fetch_offset, all_items |-> fetch_all_items,
     total_items |-> fetch_total_items, result |-> fetch_result, raised |-> FALSE]

\* the end of a call with a list
fetch_return(f, items) == [f EXCEPT !.pc = "idle", !.result = <<items>>]

\* the end of a call with an exception
fetch_raise(f) == [f EXCEPT !.pc = "idle", !.result = None, !.raised = TRUE]

\* what follows the loop of fetch_all_sold_listings and
\* fetch_all_current_listings: total_items is read, bound or not
after_bulk_loop(f) ==
    IF f.total_items = None THEN fetch_raise(f) ELSE fetch_return(f, f.all_items)

\* a turn of the loop of fetch_all_sold_listings or
\* fetch_all_current_listings; how is what _make_rate_limited_request did
bulk_fetch_turn(f, how, answer) ==
    IF how = "raise" THEN fetch_raise(f)
    ELSE IF how = "None" THEN after_bulk_loop(f)
    ELSE CHOOSE after \in
           {IF Len(got.all_items) >= got.total_items[1] THEN after_bulk_loop(got)
            ELSE IF Len(answer.page_items) < PageLimit /\ Len(answer.page_items) = 0
            THEN after_bulk_loop(got)
            ELSE IF Len(answer.page_items) < PageLimit
                    /\ 10 * Len(got.all_items) < got.total_items[1]
            THEN after_bulk_loop(got)
            ELSE IF got.offset + 1 < MaxPages
            THEN [got EXCEPT !.offset = @ + 1]
            ELSE after_bulk_loop([got EXCEPT !.offset = @ + 1]) :
            got \in {[f EXCEPT !.total_items = IF f.offset = 0 THEN <<answer.total>> ELSE @,
                                !.all_items = @ \o answer.page_items]}} : TRUE

\* a turn of the loop of fetch_sold_ebay_card_data, which sets total_items to
\* 0 before the loop and catches every exception
sold_fetch_turn(f, how, answer) ==
    IF how = "raise" THEN fetch_return(f, <<>>)
    ELSE IF how = "None" THEN fetch_return(f, filtered_items(f.all_items))
    ELSE IF f.offset = 0 /\ answer.total = 0
    THEN fetch_return([f EXCEPT !.total_items = <<0>>], filtered_items(f.all_items))
    ELSE CHOOSE after \in
           {IF Len(answer.page_items) < PageLimit \/ Len(got.all_items) >= got.total_items[1]
                  \/ got.offset + 1 >= MaxPages
            THEN fetch_return(got, filtered_items(got.all_items))
            ELSE [got EXCEPT !.offset = @ + 1] :
            got \in {[f EXCEPT !.total_items = IF f.offset = 0 THEN <<answer.total>> ELSE @,
                                !.all_items = @ \o answer.page_items]}} : TRUE

\* fetch_current_ebay_card_data, which makes one request
current_fetch_turn(f, how, answer) ==
    IF how = "raise" \/ how = "None" THEN fetch_return(f, <<>>)
    ELSE fetch_return([f EXCEPT !.all_items = answer.page_items],
                      filtered_items(answer.page_items))

fetch_turn(name, f, how, answer) ==
    IF name \in BulkFetchFunctions THEN bulk_fetch_turn(f, how, answer)
    ELSE IF name = "fetch_sold_ebay_card_data" THEN sold_fetch_turn(f, how, answer)
    ELSE current_fetch_turn(f, how, answer)

\* the batch issues its next query: the fetch function starts with the
\* access token in the environment
StartFetch ==
    /\ fetch_pc = "idle"
    /\ ~batch_aborted
    /\ batch_queries < MaxQueries
    /\ \E name \in FetchFunctions : fetch_function' = name
    /\ fetch_pc' = "paging"
    /\ fetch_offset' = 0
    /\ fetch_all_items' = <<>>
    /\ fetch_total_items' = IF fetch_function' = "fetch_sold_ebay_card_data" THEN <<0>> ELSE None
    /\ fetch_result' = None
    /\ batch_queries' = batch_queries + 1
    /\ UNCHANGED <<batch_aborted, beside_fetch>>

\* _make_rate_limited_request has ended, and the fetch function goes on; an
\* exception that leaves the fetch function leaves the batch, which catches
\* none
Requested(how, answer) ==
    /\ fetch_pc = "paging"
    /\ \E f \in {fetch_turn(fetch_function, fetch_state, how, answer)} :
         /\ fetch_pc' = f.pc
         /\ fetch_offset' = f.offset
         /\ fetch_all_items' = f.all_items
         /\ fetch_total_items' = f.total_items
         /\ fetch_result' = f.result
         /\ batch_aborted' = f.raised
    /\ UNCHANGED <<fetch_function, batch_queries, beside_fetch>>

\* the request is answered
PageFetched == \E answer \in FetchAnswers : Requested("response", answer)

\* the retries end on a 429: None
RetriesExhausted == \E answer \in FetchAnswers : Requested("None", answer)

\* the retries end on a request error, which is raised
RequestRaised == \E answer \in FetchAnswers : Requested("raise", answer)

FetchNext == StartFetch \/ PageFetched \/ RetriesExhausted \/ RequestRaised

SpecFetch == Init /\ [][FetchNext]_vars

\* C22: no exception leaves a fetch function or the batch: a fetch function
\* whose request ran out of retries, on a 429 or on a request error, on the
\* first page or a later one, returns a list, and the batch goes on.
C22_FetchDegradesToNoData ==
    /\ ~batch_aborted
    /\ (fetch_function # "" /\ fetch_pc = "idle") => fetch_result # None

\* the combinations a file of ebay_parser holds a record of: the nonFoil
\* records of its sets, one for each combination that was processed
processed_in(data) ==
    sum([k \in 1..Len(ParserCombinations) |->
            IF ParserCombinations[k].set_name \in DOMAIN data
            THEN Cardinality({i \in 1..Len(data[ParserCombinations[k].set_name].nonFoil) :
                                data[ParserCombinations[k].set_name].nonFoil[i].name
                                  = ParserCombinations[k].card_name})
            ELSE 0])

\* the file records a combination as complete: it holds a non-foil record and
\* a foil record of the card in the set, each with a price or an average
\* above zero
recorded_complete(data, of) ==
    /\ of.set_name \in DOMAIN data
    /\ \A cards \in {data[of.set_name].nonFoil, data[of.set_name].foil} :
          \E i \in 1..Len(cards) :
              /\ cards[i].name = of.card_name
              /\ \E text \in {cards[i].price, cards[i].avgSoldPrice, cards[i].avgCurrentPrice} :
                    parse_float(text) > 0

\* the records of a combination in a file
records_of(data, of) ==
    IF of.set_name \notin DOMAIN data THEN 0
    ELSE Cardinality({i \in 1..Len(data[of.set_name].nonFoil) :
                        data[of.set_name].nonFoil[i].name = of.card_name})

\* C23: while a run of ebay_parser.generate_card_data_json is under way, the
\* combinations it holds in memory and has not written to the output file
\* are fewer than SAVE_INTERVAL, and a combination the output file records as
\* complete has not been fetched again: memory holds no record of it that the
\* file does not hold.
C23_CheckpointBound ==
    parser_pc = "running" =>
        /\ processed_in(parser_memory) - processed_in(parser_file) < SaveInterval
        /\ \A k \in 1..Len(ParserCombinations) :
              recorded_complete(parser_file, ParserCombinations[k]) =>
                  records_of(parser_memory, ParserCombinations[k])
                    = records_of(parser_file, ParserCombinations[k])

\* a resumed run has passed over the first combination, which the file
\* records as complete, and holds SAVE_INTERVAL - 1 combinations that it has
\* not written
C23_Witness ==
    /\ parser_pc = "running"
    /\ parser_runs > 1
    /\ combination > 1
    /\ recorded_complete(parser_file, ParserCombinations[1])
    /\ processed_in(parser_memory) - processed_in(parser_file) = SaveInterval - 1

\* every list of a set entry of the catalog file
CatalogLists == CatalogPriceLists \cup {view[2] : view \in CatalogNameViews}

\* a list of a set of a catalog file; empty when the file has no such set
catalog_list(file, set_name, path) ==
    IF set_name \in DOMAIN file THEN list_at(file[set_name], path) ELSE <<>>

\* the product ids in the flat buckets of a set of a catalog file
flat_product_ids(file, set_name) ==
    IF set_name \in DOMAIN file THEN existing_product_ids(file[set_name]) ELSE {}

\* what a run that met env made of the file, set by set: a set without
\* product info or without pricing keeps the members of every list; in any
\* other set every priced product that has product info is in the file
\* afterwards, and a priced product without product info is not put in
missing_data_skipped(before, after, env) ==
    /\ Range(SET_GROUP_IDS) \subseteq DOMAIN after
    /\ \A set_name \in Range(SET_GROUP_IDS) :
          IF ~env.product_info[set_name].found \/ env.pricing[set_name] = None
          THEN \A path \in CatalogLists :
                  same_records(catalog_list(before, set_name, path),
                               catalog_list(after, set_name, path))
          ELSE \A row \in Range(env.pricing[set_name][1].results) :
                  IF \E product \in Range(env.product_info[set_name].products) :
                        product.productId = row.productId /\ product.name # ""
                  THEN row.productId \in flat_product_ids(after, set_name)
                  ELSE row.productId \in flat_product_ids(after, set_name)
                         => row.productId \in flat_product_ids(before, set_name)

\* C24: a run of generate_card_data_from_tcgplayer that has a bearer token
\* writes the file with an entry for every set of set_group_ids; a set
\* without a product-info file or without pricing keeps the members of its
\* lists, the sets after it are processed all the same, and a priced product
\* without product info is left out while the other priced products of its
\* set are in the file.
C24_MissingDataSkipped ==
    \A env \in Upstreams :
        env.bearer_token =>
            \A after \in {generate_card_data_from_tcgplayer(card_data, SET_GROUP_IDS, RARITIES,
                                                             env, FALSE, "")} :
                missing_data_skipped(card_data, after, env)

\* a file with records of Alpha before a run that finds no product info for
\* Alpha and puts a product into Dragonlord, the set after it; and a run
\* that prices product 3 of Alpha, which has no product info, next to a
\* product that it puts in
C24_Witness ==
    /\ flat_product_ids(card_data, "Alpha") # {}
    /\ \E env \in Upstreams :
          /\ env.bearer_token
          /\ ~env.product_info["Alpha"].found
          /\ env.pricing["Dragonlord"] # None
          /\ \A after \in {generate_card_data_from_tcgplayer(card_data, SET_GROUP_IDS, RARITIES,
                                                               env, FALSE, "")} :
                /\ flat_product_ids(after, "Dragonlord") # flat_product_ids(card_data, "Dragonlord")
                /\ flat_product_ids(after, "Alpha") = flat_product_ids(card_data, "Alpha")
    /\ \E env \in Upstreams :
          /\ env.bearer_token
          /\ env.product_info["Alpha"].found
          /\ env.pricing["Alpha"] # None
          /\ \A after \in {generate_card_data_from_tcgplayer(card_data, SET_GROUP_IDS, RARITIES,
                                                               env, FALSE, "")} :
                /\ \E row \in Range(env.pricing["Alpha"][1].results) : row.productId = 3
                /\ 3 \notin flat_product_ids(after, "Alpha")
                /\ flat_product_ids(after, "Alpha") # flat_product_ids(card_data, "Alpha")

\* float(price_value) raises for the price of the item, or
\* convert_price_to_usd has no currency code to convert from
unparseable_price(item) ==
    \/ "value" \in item.price.null
    \/ "currency" \in item.price.null
    \/ float_of(item.price.value) = None

\* C25: a turn of either loop of filter_and_group_listings over a listing
\* whose price is no number (a text that is no number, a null value or a
\* null currency code) adds nothing to any list of prices, keeps the prices
\* of the listings before it, and leaves the loop running.
C25_UnparseablePriceDropped ==
    [][processed_count' # processed_count /\ unparseable_price(listing'[1]) =>
          /\ grouped' = grouped
          /\ phase' = phase
    ]_vars

(***************************************************************************)
(* Archiving and cleanup (batch_update_core.py).  A date is a record of    *)
(* year, month and day; card_data_dir is a function from file names to the *)
(* date each file was last modified, and output_file_path is the file      *)
(* card_data.json of card_data_dir.  The content of the files is left out. *)
(***************************************************************************)

MaxFiles == 2
MaxDays == 2

\* DAYS_TO_KEEP_ARCHIVES of the batch update script, the default of days_to_keep
days_to_keep_archives == 8

\* the file of output_file_path
OUTPUT_FILE == "card_data.json"

is_digit(c) == ord[c] >= ord["0"] /\ ord[c] <= ord["9"]

is_leap(year) == (year % 4 = 0 /\ year % 100 # 0) \/ year % 400 = 0

days_in_month(year, month) ==
    IF month = 2 THEN (IF is_leap(year) THEN 29 ELSE 28)
    ELSE IF month \in {4, 6, 9, 11} THEN 30 ELSE 31

\* a < b on dates
date_lt(a, b) ==
    \/ a.year < b.year
    \/ a.year = b.year /\ a.month < b.month
    \/ a.year = b.year /\ a.month = b.month /\ a.day < b.day

\* date - timedelta(days=1)
prev_day(date) ==
    IF date.day > 1 THEN [date EXCEPT !.day = @ - 1]
    ELSE IF date.month > 1
    THEN [year |-> date.year, month |-> date.month - 1,
          day |-> days_in_month(date.year, date.month - 1)]
    ELSE [year |-> date.year - 1, month |-> 12, day |-> 31]

\* date + timedelta(days=1)
next_day(date) ==
    IF date.day < days_in_month(date.year, date.month) THEN [date EXCEPT !.day = @ + 1]
    ELSE IF date.month < 12 THEN [year |-> date.year, month |-> date.month + 1, day |-> 1]
    ELSE [year |-> date.year + 1, month |-> 1, day |-> 1]

\* date - timedelta(days=n)
RECURSIVE minus_days(_, _)
minus_days(date, n) == IF n = 0 THEN date ELSE minus_days(prev_day(date), n - 1)

\* the length of what the pattern of %d takes at the start of text:
\* 3[0-1]|[1-2]\d|0[1-9]|[1-9]| [1-9], the first alternative that matches
day_match(text) ==
    IF Len(text) >= 2 /\ CharAt(text, 1) = "3" /\ CharAt(text, 2) \in {"0", "1"} THEN 2
    ELSE IF Len(text) >= 2 /\ CharAt(text, 1) \in {"1", "2"} /\ is_digit(CharAt(text, 2)) THEN 2
    ELSE IF Len(text) >= 2 /\ CharAt(text, 1) = "0" /\ is_digit(CharAt(text, 2))
            /\ CharAt(text, 2) # "0" THEN 2
    ELSE IF Len(text) >= 1 /\ is_digit(CharAt(text, 1)) /\ CharAt(text, 1) # "0" THEN 1
    ELSE IF Len(text) >= 2 /\ CharAt(text, 1) = " " /\ is_digit(CharAt(text, 2))
            /\ CharAt(text, 2) # "0" THEN 2
    ELSE 0

\* the length of what the pattern of %m takes at the start of text,
\* 1[0-2]|0[1-9]|[1-9], given that the pattern of %d has to match after it
month_match(text) ==
    IF /\ Len(text) >= 2
       /\ \/ CharAt(text, 1) = "1" /\ CharAt(text, 2) \in {"0", "1", "2"}
          \/ CharAt(text, 1) = "0" /\ is_digit(CharAt(text, 2)) /\ CharAt(text, 2) # "0"
       /\ day_match(SubSeq(text, 3, Len(text))) > 0
    THEN 2
    ELSE IF /\ Len(text) >= 1 /\ is_digit(CharAt(text, 1)) /\ CharAt(text, 1) # "0"
            /\ day_match(SubSeq(text, 2, Len(text))) > 0
    THEN 1
    ELSE 0

\* int() of what the pattern of %d took
day_value(text) ==
    IF CharAt(text, 1) = " " THEN parse_digits(Tail(text), 0) ELSE parse_digits(text, 0)

\* datetime.strptime(date_str, "%Y%m%d").date(), in a tuple; None for the
\* ValueError of a text that the format does not match, that goes on after
\* the match, or that names a day that is not in the calendar
strptime(date_str) ==
    IF Len(date_str) < 4 \/ \E i \in 1..4 : ~is_digit(CharAt(date_str, i)) THEN None
    ELSE CHOOSE parsed \in
            {IF m_len = 0 THEN None
             ELSE CHOOSE given_day \in
                    {IF 4 + m_len + d_len # Len(date_str) THEN None
                     ELSE CHOOSE given_date \in
                            {IF date.year < 1 \/ date.day > days_in_month(date.year, date.month)
                             THEN None ELSE <<date>> :
                               date \in {[year |-> parse_digits(SubSeq(date_str, 1, 4), 0),
                                          month |-> parse_digits(SubSeq(date_str, 5, 4 + m_len), 0),
                                          day |-> day_value(SubSeq(date_str, 5 + m_len,
                                                                   4 + m_len + d_len))]}} : TRUE :
                        d_len \in {day_match(SubSeq(date_str, 5 + m_len, Len(date_str)))}} : TRUE :
               m_len \in {month_match(SubSeq(date_str, 5, Len(date_str)))}} : TRUE

\* n in decimal, with zeros in front up to width characters
RECURSIVE zero_padded(_, _)
zero_padded(text, width) ==
    IF Len(text) >= width THEN text ELSE zero_padded("0" \o text, width)

\* date.strftime("%Y%m%d")
strftime(date) ==
    zero_padded(ToString(date.year), 4) \o zero_padded(ToString(date.month), 2)
        \o zero_padded(ToString(date.day), 2)

\* text.split('_')[0]
RECURSIVE before_underscore(_)
before_underscore(text) ==
    IF text = "" \/ Head(text) = "_" THEN ""
    ELSE Head(text) \o before_underscore(Tail(text))

\* a turn of the loop of cleanup_old_archives: whether os.remove is called
\* for filename
removes(filename, now, days_to_keep) ==
    /\ Len(filename) >= 10 /\ SubSeq(filename, 1, 10) = "card_data_"
    /\ SubSeq(filename, Len(filename) - 4, Len(filename)) = ".json"
    /\ filename # "card_data.json"
    /\ \E file_date_from_name \in
            {strptime(before_underscore(SubSeq(filename, 11, Len(filename) - 5)))} :
          /\ file_date_from_name # None
          /\ date_lt(file_date_from_name[1], minus_days(now, days_to_keep))

\* cleanup_old_archives: the files of card_data_dir afterwards
cleanup_old_archives(files, now, days_to_keep) ==
    [filename \in {f \in DOMAIN files : ~removes(f, now, days_to_keep)} |-> files[filename]]

\* the first step of run_batch_update: card_data.json of a day before today
\* is renamed to card_data_<timestamp>.json
archive_previous_day(files, now, time_of_day) ==
    IF OUTPUT_FILE \in DOMAIN files /\ date_lt(files[OUTPUT_FILE], now)
    THEN [filename \in (DOMAIN files \ {OUTPUT_FILE})
                          \cup {"card_data_" \o strftime(now) \o "_" \o time_of_day \o ".json"} |->
            IF filename \in DOMAIN files \ {OUTPUT_FILE} /\
               filename # "card_data_" \o strftime(now) \o "_" \o time_of_day \o ".json"
            THEN files[filename] ELSE files[OUTPUT_FILE]]
    ELSE files

\* what generate_card_data_from_tcgplayer does to the files: without a
\* bearer token it returns before anything is saved, with one the final save
\* writes output_file_path
generated_files(files, now, bearer_token) ==
    IF bearer_token THEN (OUTPUT_FILE :> now) @@ files ELSE files

\* run_batch_update: the files of card_data_dir when it returns
run_batch_update(files, now, time_of_day, bearer_token, days_to_keep) ==
    cleanup_old_archives(
        generated_files(archive_previous_day(files, now, time_of_day), now, bearer_token),
        now, days_to_keep)

\* the names of the files that come to be in card_data_dir
FileNames ==
    {"card_data.json", "card_data_20251124_030000.json", "card_data_20251126_030000.json",
     "card_data_20251124.json", "card_data_2025111_x.json", "card_data_backup.json",
     "card_data_20250230_1.json", "card_data_20251124_1.txt", "sorcery_card_list.json"}

\* the dates they were last modified
FileDates == {[year |-> 2025, month |-> 1, day |-> 1], FirstDay}

\* the values of days_to_keep of the calls of cleanup_old_archives
DaysToKeep == {1, days_to_keep_archives}

\* the times of day at which a run archives, as strftime("%H%M%S") gives them
TimesOfDay == {"030000"}

\* a file is put into card_data_dir
FileAppears ==
    /\ Cardinality(DOMAIN directory) < MaxFiles
    /\ \E filename \in FileNames \ DOMAIN directory, modified \in FileDates :
          directory' = (filename :> modified) @@ directory
    /\ batch_call' = None
    /\ UNCHANGED <<clock, days_passed, beside_archive>>

\* midnight
DayPasses ==
    /\ days_passed < MaxDays
    /\ days_passed' = days_passed + 1
    /\ clock' = next_day(clock)
    /\ batch_call' = None
    /\ UNCHANGED <<directory, beside_archive>>

\* a call of cleanup_old_archives
CleanupOldArchives ==
    /\ \E days_to_keep \in DaysToKeep :
          /\ directory' = cleanup_old_archives(directory, clock, days_to_keep)
          /\ batch_call' = <<[function |-> "cleanup_old_archives",
                              days_to_keep |-> days_to_keep, bearer_token |-> FALSE]>>
    /\ UNCHANGED <<clock, days_passed, beside_archive>>

\* a call of run_batch_update, from its start to its return
RunBatchUpdate ==
    /\ \E bearer_token \in BOOLEAN, time_of_day \in TimesOfDay :
          /\ directory' = run_batch_update(directory, clock, time_of_day, bearer_token,
                                           days_to_keep_archives)
          /\ batch_call' = <<[function |-> "run_batch_update",
                              days_to_keep |-> days_to_keep_archives,
                              bearer_token |-> bearer_token]>>
    /\ UNCHANGED <<clock, days_passed, beside_archive>>

ArchiveNext == FileAppears \/ DayPasses \/ CleanupOldArchives \/ RunBatchUpdate

SpecArchive == Init /\ [][ArchiveNext]_vars

\* the call that a step has just made, if it made one
latest_call(function) ==
    IF batch_call' = None THEN {} ELSE {call \in {batch_call'[1]} : call.function = function}

\* filename is card_data_<YYYYMMDD>_<rest>.json
has_archive_form(filename) ==
    /\ Len(filename) >= 24
    /\ SubSeq(filename, 1, 10) = "card_data_"
    /\ SubSeq(filename, Len(filename) - 4, Len(filename)) = ".json"
    /\ \A i \in 11..18 : is_digit(CharAt(filename, i))
    /\ CharAt(filename, 19) = "_"

\* the date that YYYYMMDD names
named_date(filename) ==
    [year |-> parse_digits(SubSeq(filename, 11, 14), 0),
     month |-> parse_digits(SubSeq(filename, 15, 16), 0),
     day |-> parse_digits(SubSeq(filename, 17, 18), 0)]

\* date is a day of the calendar
in_calendar(date) ==
    /\ date.year >= 1 /\ date.month \in 1..12
    /\ date.day >= 1 /\ date.day <= days_in_month(date.year, date.month)

\* C26: a call of cleanup_old_archives deletes a file of card_data_dir
\* exactly when its name is card_data_<YYYYMMDD>_<rest>.json with a date of
\* the calendar that is before today minus days_to_keep, whatever the date
\* the file was last modified.
C26_ArchiveRetention ==
    [][\A call \in latest_call("cleanup_old_archives") :
          \A filename \in DOMAIN directory :
              filename \notin DOMAIN directory' <=>
                  /\ has_archive_form(filename)
                  /\ in_calendar(named_date(filename))
                  /\ date_lt(named_date(filename), minus_days(clock, call.days_to_keep))
    ]_vars

\* C27: a call of run_batch_update that starts with a file at
\* output_file_path returns with a file at output_file_path, with or without
\* a bearer token and whatever the day the file is from.
C27_OutputFileSurvives ==
    [][\A call \in latest_call("run_batch_update") :
          OUTPUT_FILE \in DOMAIN directory => OUTPUT_FILE \in DOMAIN directory'
    ]_vars

(***************************************************************************)
(* The bulk pipeline (ebay_bulk_fetch.generate_card_data_json): one search *)
(* of sold and one of current listings for each set, then the grouping of  *)
(* everything the searches returned.  The fetch functions are modelled     *)
(* above; here what they return is an input.                               *)
(***************************************************************************)

MaxResults == 2

\* the master card list of the bulk pipeline
BulkCards ==
    <<[card_name |-> "Death Dealer",
       sets |-> <<[set_name |-> "Alpha"], [set_name |-> "Beta"]>>]>>

\* a listing of the marketplace: an item of the Buy API with its itemId
BulkItem(item_id, item_title) == ("itemId" :> item_id) @@ Item(item_title, <<>>, "2.50", "USD")

\* the listings on the marketplace, one of them with both sets in its title
BulkItems ==
    {BulkItem("v1|101|0", "Sorcery Contested Realm Alpha Beta Death Dealer"),
     BulkItem("v1|102|0", "Sorcery Contested Realm Alpha Death Dealer"),
     BulkItem("v1|103|0", "Sorcery Contested Realm Beta Death Dealer Foil")}

\* what a search for "Sorcery Contested Realm <set_name>" can return:
\* listings with the name of the set in their title, each of them once
SearchResults(set_name) ==
    SeqsUpTo({item \in BulkItems : In(set_name, item.title)}, MaxResults)

\* sorted(all_sets)
RECURSIVE sorted_names(_)
sorted_names(names) ==
    IF names = {} THEN <<>>
    ELSE LET first == CHOOSE n \in names : \A other \in names \ {n} : str_lt(n, other)
         IN  <<first>> \o sorted_names(names \ {first})

\* the loop over sorted(all_sets) of generate_card_data_json: the list that
\* extend() has built from what the search of each set returned
RECURSIVE extended(_, _)
extended(set_names, found) ==
    IF set_names = <<>> THEN <<>>
    ELSE found[Head(set_names)] \o extended(Tail(set_names), found)

\* a loop of filter_and_group_listings, over listings priced in USD
RECURSIVE group_items(_, _, _, _)
group_items(items, is_sold, groups, cards) ==
    IF items = <<>> THEN groups
    ELSE group_items(Tail(items), is_sold,
                     handle_listing(Head(items), is_sold, groups, <<>>, None,
                                    [ok |-> FALSE, usd |-> None], cards).grouped,
                     cards)

\* filter_and_group_listings
filter_and_group_listings(sold_items, current_items, cards) ==
    group_items(current_items, FALSE, group_items(sold_items, TRUE, <<>>, cards), cards)

\* a run of generate_card_data_json up to the grouping
BulkRun ==
    /\ grouped_data = None
    /\ \E sold \in [all_sets(BulkCards) -> UNION {SearchResults(n) : n \in all_sets(BulkCards)}],
          current \in [all_sets(BulkCards) -> UNION {SearchResults(n) : n \in all_sets(BulkCards)}] :
          /\ \A n \in all_sets(BulkCards) :
                sold[n] \in SearchResults(n) /\ current[n] \in SearchResults(n)
          /\ all_sold_items' = extended(sorted_names(all_sets(BulkCards)), sold)
          /\ all_current_items' = extended(sorted_names(all_sets(BulkCards)), current)
          /\ grouped_data' = <<filter_and_group_listings(all_sold_items', all_current_items',
                                                         BulkCards)>>
    /\ UNCHANGED beside_bulk

SpecBulk == Init /\ [][BulkRun]_vars

\* the group a listing is counted in: a set of one key, or of none
group_of(item) ==
    DOMAIN handle_listing(item, TRUE, <<>>, <<>>, None, [ok |-> FALSE, usd |-> None],
                          BulkCards).grouped

\* the listings among items that are counted in the group of key
listings_of(items, key) ==
    {items[i].itemId : i \in {j \in 1..Len(items) : key \in group_of(items[j])}}

\* C28: after the grouping of the bulk pipeline, the sold prices of a group
\* are no more than the distinct listings that the sold searches returned
\* for it, and its current prices no more than the distinct listings of the
\* current searches: a listing is counted once in each list, also when the
\* searches of several sets return it.
C28_EachListingOnce ==
    \A found \in (IF grouped_data = None THEN {} ELSE {grouped_data[1]}) :
        \A key \in DOMAIN found :
            /\ Len(found[key].sold_prices) <= Cardinality(listings_of(all_sold_items, key))
            /\ Len(found[key].current_prices)
                  <= Cardinality(listings_of(all_current_items, key))

(***************************************************************************)
(* A run of generate_card_data_from_tcgplayer over an output file that     *)
(* another run or the marketplace pipeline has written (pricing_core.py).  *)
(***************************************************************************)

\* the keys of a set entry that the final sort reads with
\* all_sets_processed_data[set_name][key]
INDEXED_KEYS ==
    {"nonFoil", "foil", "sealed", "preconstructed", "nonFoilByRarityPrice",
     "nonFoilByRarityName", "foilByRarityPrice", "foilByRarityName"}

\* the sets an output file can hold before a run
FileSets == Range(SET_GROUP_IDS) \cup {"Beta"}

\* the output files before a run: none, or a file in which each set has the
\* entry that the marketplace pipeline creates or the one that the catalog
\* pipeline creates
ResumeFiles ==
    UNION {[held -> {new_parser_set_data, new_set_data(RARITIES)}] : held \in SUBSET FileSets}

\* generate_card_data_from_tcgplayer over a loaded file, with how it ends:
\* without a bearer token it returns before the loop; with one, the final
\* sort goes through every set of all_sets_processed_data and reads each of
\* INDEXED_KEYS, which is a KeyError for an entry that lacks one, raised
\* before the final save; the sets the loop adds hold every key
resumed_run(file, set_group_ids, rarities, env, test_mode, test_set_name) ==
    IF ~env.bearer_token THEN [outcome |-> "returned", file |-> file]
    ELSE IF \E set_name \in DOMAIN file : ~(INDEXED_KEYS \subseteq DOMAIN file[set_name])
    THEN [outcome |-> "KeyError", file |-> file]
    ELSE [outcome |-> "returned",
          file |-> generate_card_data_from_tcgplayer(file, set_group_ids, rarities, env,
                                                     test_mode, test_set_name)]

ResumeInit == card_data \in ResumeFiles /\ upstream = NoToken /\ runs = 0
              /\ skipped_count = [s \in Range(SET_GROUP_IDS) |-> 0] /\ stale_skips = {}
              /\ OtherInit

\* a run over the output file as it is
ResumeRun ==
    /\ \E env \in Upstreams :
          \E ended \in {resumed_run(card_data, SET_GROUP_IDS, RARITIES, env, FALSE, "")} :
              /\ card_data' = ended.file
              /\ resume_outcome' = <<ended.outcome>>
    /\ UNCHANGED <<upstream, runs, skipped_count, stale_skips, beside_resume>>

SpecResume == ResumeInit /\ [][ResumeRun]_vars

\* set_data is an entry as the marketplace pipeline writes it: the card
\* buckets and neither sealed nor preconstructed
lacks_optional_buckets(set_data) ==
    /\ {"nonFoil", "foil"} \subseteq DOMAIN set_data
    /\ {"sealed", "preconstructed"} \cap DOMAIN set_data = {}

\* C29: a run over an output file with a set entry that has nonFoil and foil
\* and neither sealed nor preconstructed ends without raising.
C29_ResumeWithoutOptionalBuckets ==
    [][(resume_outcome' # None
        /\ \E set_name \in DOMAIN card_data : lacks_optional_buckets(card_data[set_name]))
          => resume_outcome' = <<"returned">>
    ]_vars

\* the lookup came back with an error, or with rates without one for USD
lookup_failed(answer) == ~answer.ok \/ answer.usd = None \/ answer.usd = Num(0)

\* C30: a conversion whose exchange-rate lookup fails leaves
\* _exchange_rate_cache as it was, without an entry for the currency, so
\* that the next conversion of the currency asks the network again whatever
\* the answer will be; and an entry that a conversion adds to the cache is
\* the USD rate of the successful lookup of that conversion, every other
\* entry staying as it was.
C30_FailedLookupNotCached ==
    [][conversion' # None =>
          \A done \in {conversion'[1]} :
              /\ (done.requested /\ lookup_failed(done.response)) =>
                    /\ _exchange_rate_cache' = _exchange_rate_cache
                    /\ upper(done.currency) \notin DOMAIN _exchange_rate_cache'
                    /\ \A answer \in ExchangeResponses :
                          get_exchange_rate_to_usd(done.currency, _exchange_rate_cache',
                                                   answer).requested
              /\ \A code \in DOMAIN _exchange_rate_cache' :
                    \/ /\ code \in DOMAIN _exchange_rate_cache
                       /\ _exchange_rate_cache'[code] = _exchange_rate_cache[code]
                    \/ /\ done.requested /\ ~lookup_failed(done.response)
                       /\ code = upper(done.currency)
                       /\ _exchange_rate_cache'[code] = done.response.usd[1]
    ]_vars

\* the lookup of the latest conversion failed, for a currency that is not
\* in the cache, while the cache holds the rate of another currency
C30_Witness ==
    /\ conversion # None
    /\ conversion[1].requested /\ lookup_failed(conversion[1].response)
    /\ upper(conversion[1].currency) = "EUR"
    /\ DOMAIN _exchange_rate_cache = {"GBP"}

====
